---- MODULE Spec2Model ----
(***************************************************************************)
(* A model of the retrieval and graph engine of openclaw-memory-offline:   *)
(* the items / embeddings / facts tables, hybridSearch with its await      *)
(* points, the embedding cache (getOrCreateItemEmbedding), the fact write  *)
(* paths and the breadth-first findPaths.                                  *)
(***************************************************************************)
EXTENDS Integers, Sequences, FiniteSets, TLC

(***************************************************************************)
(* Bounds of the model.                                                    *)
(***************************************************************************)
MaxItems == 2
MaxBm25 == 2
MaxCreatedAt == 2
MaxTopK == 1
MaxCandidates == 1
MaxStm == 3
MaxNow == 2

ItemIds == 1..MaxItems
StmIds == 1..MaxStm
Times == 0..MaxNow
Procs == {1, 2}
\* The caller of the specifications with one call in progress.
Solo == {1}

(***************************************************************************)
(* Option values: JavaScript null / undefined is <<>>, a value x is <<x>>. *)
(***************************************************************************)
Null == <<>>
Some(x) == <<x>>
IsNull(o) == o = <<>>
Val(o) == o[1]

(***************************************************************************)
(* Exact rational numbers <<n, d>> (d > 0, lowest terms) stand for the     *)
(* double-precision scores.                                                *)
(***************************************************************************)
Abs(x) == IF x < 0 THEN -x ELSE x

RECURSIVE Gcd(_, _)
Gcd(a, b) == IF b = 0 THEN a ELSE Gcd(b, a % b)

RNorm(n, d) ==
  LET g == Gcd(Abs(n), Abs(d))
      s == IF d < 0 THEN -1 ELSE 1
  IN  <<(s * n) \div g, (s * d) \div g>>

RInt(n) == <<n, 1>>
RAdd(a, b) == RNorm(a[1] * b[2] + b[1] * a[2], a[2] * b[2])
RSub(a, b) == RNorm(a[1] * b[2] - b[1] * a[2], a[2] * b[2])
RMul(a, b) == RNorm(a[1] * b[1], a[2] * b[2])
RDiv(a, b) == RNorm(a[1] * b[2], a[2] * b[1])
RLess(a, b) == a[1] * b[2] < b[1] * a[2]
RLeq(a, b) == a[1] * b[2] <= b[1] * a[2]

(***************************************************************************)
(* MemConfig values an embedder is called with.                            *)
(***************************************************************************)
CfgOllama ==
  [provider |-> Null, embeddingModel |-> Some("mA"), openaiModel |-> Null, openaiApiKey |-> Null]
CfgOpenAI ==
  [provider |-> Some("openai"), embeddingModel |-> Null,
   openaiModel |-> Some("text-embedding-3-small"), openaiApiKey |-> Some("sk")]
CfgOpenAINamed ==
  [provider |-> Some("openai"), embeddingModel |-> Some("text-embedding-3-small"),
   openaiModel |-> Null, openaiApiKey |-> Some("sk")]
CfgOpenAINoKey ==
  [provider |-> Some("openai"), embeddingModel |-> Null,
   openaiModel |-> Some("text-embedding-3-small"), openaiApiKey |-> Null]

Cfgs == {CfgOllama, CfgOpenAI, CfgOpenAINamed, CfgOpenAINoKey}

\* cfg.provider ?? 'ollama'
ProviderOf(cfg) == IF IsNull(cfg.provider) THEN "ollama" ELSE Val(cfg.provider)

\* fetchEmbeddingOllama: cfg.embeddingModel ?? 'bge-m3'
OllamaModel(cfg) == IF IsNull(cfg.embeddingModel) THEN "bge-m3" ELSE Val(cfg.embeddingModel)

\* fetchEmbeddingOpenAI: cfg.openaiModel ?? (cfg.embeddingModel || 'text-embedding-3-small')
OpenAIModel(cfg) ==
  IF ~IsNull(cfg.openaiModel) THEN Val(cfg.openaiModel)
  ELSE IF ~IsNull(cfg.embeddingModel) THEN Val(cfg.embeddingModel)
  ELSE "text-embedding-3-small"

\* The model name fetchEmbedding puts in its result.
FetchModel(cfg) == IF ProviderOf(cfg) = "openai" THEN OpenAIModel(cfg) ELSE OllamaModel(cfg)

\* fetchEmbeddingOpenAI throws before fetch() when the key is missing.
ConfigError(cfg) == ProviderOf(cfg) = "openai" /\ IsNull(cfg.openaiApiKey)

\* getOrCreateItemEmbedding: the model name of the cache lookup.
LookupModel(cfg) == IF IsNull(cfg.embeddingModel) THEN "bge-m3" ELSE Val(cfg.embeddingModel)

(***************************************************************************)
(* Vectors the provider may answer with, and their storage as a BLOB of    *)
(* little-endian float32 bytes.                                            *)
(***************************************************************************)
Components == {-1, 0, 1}
Vecs == {<<1>>, <<-1>>, <<0, 1>>}

F32Bytes(c) ==
  CASE c = 1  -> <<0, 0, 128, 63>>
    [] c = -1 -> <<0, 0, 128, 191>>
    [] OTHER  -> <<0, 0, 0, 0>>

RECURSIVE vectorToBlob(_)
vectorToBlob(vec) ==
  IF vec = <<>> THEN <<>> ELSE F32Bytes(Head(vec)) \o vectorToBlob(Tail(vec))

F32Value(bytes) == CHOOSE c \in Components : F32Bytes(c) = bytes

blobToVector(blob) ==
  [i \in 1..(Len(blob) \div 4) |-> F32Value(SubSeq(blob, 4 * i - 3, 4 * i))]

(***************************************************************************)
(* cosine: "mismatch" stands for the thrown length-mismatch error.         *)
(***************************************************************************)
RECURSIVE Dot(_, _)
Dot(a, b) == IF a = <<>> THEN 0 ELSE Head(a) * Head(b) + Dot(Tail(a), Tail(b))

Sqrt(n) == CHOOSE k \in 0..n : k * k = n

CosineThrows(a, b) == Len(a) # Len(b)

cosine(a, b) ==
  LET denom == Sqrt(Dot(a, a)) * Sqrt(Dot(b, b))
  IN  IF denom = 0 THEN RInt(0) ELSE RNorm(Dot(a, b), denom)


(***************************************************************************)
(* State.  items and embeddings are the two tables hybridSearch reads and  *)
(* writes; the rest are the locals of one hybridSearch call per caller.    *)
(***************************************************************************)
VARIABLES
  items,       \* items table: id -> <<>> (no row) or <<[created_at, rank]>>
  embeddings,  \* embeddings table (PRIMARY KEY item_id): id -> <<>> or <<row>>
  pc,          \* where each hybridSearch call stands
  cfgOf,       \* the MemConfig of the call
  topKOf,      \* opts.topK ?? 10
  candOf,      \* opts.candidates ?? Math.max(50, topK)
  wOf,         \* opts.semanticWeight ?? 0.7
  lexHits,     \* the lexical pass
  recent,      \* the recency pass
  lex,         \* merged candidates
  pending,     \* the embedding request awaited: "none", "net" or "cfgError"
  queryEmb,    \* <<>> or <<[vector, dims, model]>>
  idx,         \* loop position in lex
  unobtained,  \* candidates whose getOrCreateItemEmbedding returned null
  out,         \* scored entries pushed so far
  result,      \* the returned list
  outcome      \* "none", "returned" or "threw"

svars == <<items, embeddings, pc, cfgOf, topKOf, candOf, wOf, lexHits, recent, lex, pending,
           queryEmb, idx, unobtained, out, result, outcome>>

(***************************************************************************)
(* The facts table and the locals of one findPaths call.                   *)
(***************************************************************************)
VARIABLES
  facts,      \* facts table, in rowid order
  gpc,        \* "idle", "bfs" or "done"
  fromEntity, \* findPaths arguments
  toEntity,
  maxDepth,
  maxPaths,
  queue,      \* BFS queue of [entity, path]
  visited,    \* Set of path keys `${a}|${b}`
  paths,      \* paths found so far
  gResult     \* the returned list

gvars == <<facts, gpc, fromEntity, toEntity, maxDepth, maxPaths, queue, visited, paths, gResult>>

(***************************************************************************)
(* Attribution of items and the locals of one hybridSearchFiltered call.   *)
(***************************************************************************)
VARIABLES
  attribution, \* items table: id -> [entity_id, process_id, session_id]
  filterOf,    \* <<>> (no call) or <<opts.filter>> of the hybridSearchFiltered call
  fResult      \* <<>> or <<the list hybridSearchFiltered returns>>

fvars == <<attribution, filterOf, fResult>>

(***************************************************************************)
(* The last graph query (getRelatedEntities, getGraphStats,                *)
(* exportGraphJson) and the value it returned.                             *)
(***************************************************************************)
VARIABLES
  qCall        \* [op |-> "none"] or [op, args, value]

qvars == <<qCall>>

(***************************************************************************)
(* The vector codec: the last dequantize / quantize round trip and the     *)
(* last cosineSimilarity call.                                             *)
(***************************************************************************)
VARIABLES
  half,        \* <<>> or <<h>>: the 16-bit pattern given to dequantizeF16ToF32
  single,      \* <<>> or <<f>>: the float32 it produced
  requantized, \* <<>> or <<h>>: quantizeF32ToF16 of that float32
  cosCall      \* <<>> or <<[a, b, outcome]>>

cvars == <<half, single, requantized, cosCall>>

(***************************************************************************)
(* The last escapeFts5Query call.                                          *)
(***************************************************************************)
VARIABLES
  escCall      \* <<>> or <<[query, escaped]>>

evars == <<escCall>>

(***************************************************************************)
(* The short-term memory table and the last call made on it.               *)
(***************************************************************************)
VARIABLES
  stm,         \* stm_items: id -> <<>> or <<[created_at, expires_at, importance, rank]>>
  stmCall      \* [op |-> "none"] or [op, args, value]

mvars == <<stm, stmCall>>

xvars == <<fvars, qvars, cvars, evars, mvars>>

vars == <<svars, gvars, xvars>>

\* Defaults of hybridSearch's options.
DefaultTopK == 10
DefaultCandidatesFloor == 50
DefaultWeight == <<7, 10>>

TopKOpts == {Null} \cup {Some(k) : k \in 1..MaxTopK}
CandidateOpts == {Null} \cup {Some(k) : k \in 1..MaxCandidates}
WeightOpts == {Null, Some(RInt(1))}

Max(a, b) == IF a >= b THEN a ELSE b
Min(a, b) == IF a <= b THEN a ELSE b

(***************************************************************************)
(* Sequences helpers.                                                      *)
(***************************************************************************)
Perms(S) == {f \in [1..Cardinality(S) -> S] : \A i, j \in DOMAIN f : i # j => f[i] # f[j]}
Take(s, n) == SubSeq(s, 1, IF n < Len(s) THEN n ELSE Len(s))
IdsOf(s) == {s[i].id : i \in DOMAIN s}

Stored == {i \in ItemIds : ~IsNull(items[i])}
Row(i) == Val(items[i])

(***************************************************************************)
(* lexicalSearch: rows matching the query ordered by bm25 ASC, LIMIT ?.    *)
(* rank = 0 is an item the query does not match; a matching item has       *)
(* bm25 = -rank < 0 (FTS5's bm25 of a matching row is negative), and its   *)
(* lexicalScore is -bm25.  The order of rows of equal bm25 is SQLite's.    *)
(***************************************************************************)
Bm25(i) == -Row(i).rank

lexicalSearch(limit) ==
  LET hits == {i \in Stored : Row(i).rank > 0}
      ordered == {f \in Perms(hits) :
                    \A a, b \in DOMAIN f : a < b => Bm25(f[a]) <= Bm25(f[b])}
  IN  {Take([k \in DOMAIN f |-> [id |-> f[k], lexicalScore |-> -Bm25(f[k])]], limit) :
         f \in ordered}

\* SELECT ... FROM items ORDER BY created_at DESC LIMIT ?, mapped to lexicalScore 0.
recentRows(limit) ==
  LET ordered == {f \in Perms(Stored) :
                    \A a, b \in DOMAIN f : a < b => Row(f[a]).created_at >= Row(f[b]).created_at}
  IN  {Take([k \in DOMAIN f |-> [id |-> f[k], lexicalScore |-> 0]], limit) : f \in ordered}

\* for (const r of [...lexHits, ...recent]) { if (seen.has(id)) continue; ... push }
RECURSIVE MergeFrom(_, _, _)
MergeFrom(rest, seen, merged) ==
  IF rest = <<>> THEN merged
  ELSE IF Head(rest).id \in seen THEN MergeFrom(Tail(rest), seen, merged)
  ELSE MergeFrom(Tail(rest), seen \cup {Head(rest).id}, Append(merged, Head(rest)))

\* Mutants of Merge: the recency pass first; no deduplication.
MergeRecentFirst(hits, rec) == MergeFrom(rec \o hits, {}, <<>>)
MergeNoDedup(hits, rec) == hits \o rec

Merge(hits, rec) == MergeFrom(hits \o rec, {}, <<>>)

\* lex.slice(0, topK).map(r => ({...r, semanticScore: null, score: r.lexicalScore}))
LexicalOnly(cands, topK) ==
  [k \in DOMAIN Take(cands, topK) |->
     [id |-> cands[k].id, lexicalScore |-> cands[k].lexicalScore,
      semanticScore |-> Null, score |-> RInt(cands[k].lexicalScore)]]

(***************************************************************************)
(* Scoring of one candidate (the loop body of hybridSearch).               *)
(***************************************************************************)
RECURSIVE MinOf(_)
MinOf(s) == IF Len(s) = 1 THEN s[1]
            ELSE LET m == MinOf(Tail(s)) IN IF s[1] < m THEN s[1] ELSE m
RECURSIVE MaxOf(_)
MaxOf(s) == IF Len(s) = 1 THEN s[1]
            ELSE LET m == MaxOf(Tail(s)) IN IF s[1] > m THEN s[1] ELSE m

LexScores(cands) == [k \in DOMAIN cands |-> cands[k].lexicalScore]
MinLex(cands) == MinOf(LexScores(cands))
\* maxLex - minLex || 1
DenomLex(cands) ==
  LET d == MaxOf(LexScores(cands)) - MinLex(cands) IN IF d = 0 THEN 1 ELSE d

LexNorm(cands, r) == RNorm(r.lexicalScore - MinLex(cands), DenomLex(cands))
\* Mutant of SemNorm: a missing semantic score counted as cosine 0.
SemNormNullAsZeroCosine(sem) ==
  RDiv(RAdd(IF IsNull(sem) THEN RInt(0) ELSE Val(sem), RInt(1)), RInt(2))

\* sem === null ? 0 : (sem + 1) / 2
SemNorm(sem) == IF IsNull(sem) THEN RInt(0) ELSE RDiv(RAdd(Val(sem), RInt(1)), RInt(2))
\* Mutant of Fuse: the two weights exchanged.
FuseWeightsSwapped(w, lexNorm, semNorm) ==
  RAdd(RMul(w, lexNorm), RMul(RSub(RInt(1), w), semNorm))

\* (1 - w) * lexNorm + w * semNorm
Fuse(w, lexNorm, semNorm) == RAdd(RMul(RSub(RInt(1), w), lexNorm), RMul(w, semNorm))

Scored(cands, w, r, sem) ==
  [id |-> r.id, lexicalScore |-> r.lexicalScore, semanticScore |-> sem,
   score |-> Fuse(w, LexNorm(cands, r), SemNorm(sem))]

\* Mutant of InsertDesc: an entry is placed before the entries of equal score.
RECURSIVE InsertDescBeforeTies(_, _)
InsertDescBeforeTies(sorted, e) ==
  IF sorted = <<>> THEN <<e>>
  ELSE IF RLeq(Head(sorted).score, e.score) THEN <<e>> \o sorted
  ELSE <<Head(sorted)>> \o InsertDescBeforeTies(Tail(sorted), e)

\* out.sort((a, b) => b.score - a.score): a stable sort, descending by score.
RECURSIVE InsertDesc(_, _)
InsertDesc(sorted, e) ==
  IF sorted = <<>> THEN <<e>>
  ELSE IF RLess(Head(sorted).score, e.score) THEN <<e>> \o sorted
  ELSE <<Head(sorted)>> \o InsertDesc(Tail(sorted), e)

RECURSIVE SortDescFrom(_, _)
SortDescFrom(rest, sorted) ==
  IF rest = <<>> THEN sorted ELSE SortDescFrom(Tail(rest), InsertDesc(sorted, Head(rest)))

SortDesc(s) == SortDescFrom(s, <<>>)


(***************************************************************************)
(* Initial state: an empty store, no call in progress.                     *)
(***************************************************************************)
SearchInit ==
  /\ items = [i \in ItemIds |-> Null]
  /\ embeddings = [i \in ItemIds |-> Null]
  /\ pc = [p \in Procs |-> "idle"]
  /\ cfgOf = [p \in Procs |-> CfgOllama]
  /\ topKOf = [p \in Procs |-> DefaultTopK]
  /\ candOf = [p \in Procs |-> DefaultCandidatesFloor]
  /\ wOf = [p \in Procs |-> DefaultWeight]
  /\ lexHits = [p \in Procs |-> <<>>]
  /\ recent = [p \in Procs |-> <<>>]
  /\ lex = [p \in Procs |-> <<>>]
  /\ pending = [p \in Procs |-> "none"]
  /\ queryEmb = [p \in Procs |-> Null]
  /\ idx = [p \in Procs |-> 0]
  /\ unobtained = [p \in Procs |-> {}]
  /\ out = [p \in Procs |-> <<>>]
  /\ result = [p \in Procs |-> <<>>]
  /\ outcome = [p \in Procs |-> "none"]

\* insertItem: INSERT INTO items (a second row of the same id is rejected).
insertItem(id, created_at, rank) ==
  /\ IsNull(items[id])
  /\ items' = [items EXCEPT ![id] = Some([created_at |-> created_at, rank |-> rank])]
  /\ UNCHANGED <<gvars, xvars>>
  /\ UNCHANGED <<embeddings, pc, cfgOf, topKOf, candOf, wOf, lexHits, recent, lex, pending,
                 queryEmb, idx, unobtained, out, result, outcome>>

\* fetchEmbedding up to its first await: a thrown configuration error, or a request sent.
Request(cfg) == IF ConfigError(cfg) THEN "cfgError" ELSE "net"

\* hybridSearch from its call to `await fetchEmbedding(cfg, query)`.
StartSearch(p, cfg, topKOpt, candOpt, wOpt) ==
  LET topK == IF IsNull(topKOpt) THEN DefaultTopK ELSE Val(topKOpt)
      candidates == IF IsNull(candOpt) THEN Max(DefaultCandidatesFloor, topK) ELSE Val(candOpt)
      w == IF IsNull(wOpt) THEN DefaultWeight ELSE Val(wOpt)
  IN
  /\ pc[p] = "idle"
  /\ \E hits \in lexicalSearch(candidates), rec \in recentRows(candidates) :
       LET merged == Merge(hits, rec) IN
       /\ cfgOf' = [cfgOf EXCEPT ![p] = cfg]
       /\ topKOf' = [topKOf EXCEPT ![p] = topK]
       /\ candOf' = [candOf EXCEPT ![p] = candidates]
       /\ wOf' = [wOf EXCEPT ![p] = w]
       /\ lexHits' = [lexHits EXCEPT ![p] = hits]
       /\ recent' = [recent EXCEPT ![p] = rec]
       /\ lex' = [lex EXCEPT ![p] = merged]
       /\ IF merged = <<>>
          THEN /\ pc' = [pc EXCEPT ![p] = "done"]
               /\ outcome' = [outcome EXCEPT ![p] = "returned"]
               /\ pending' = pending
          ELSE /\ pc' = [pc EXCEPT ![p] = "awaitQuery"]
               /\ outcome' = outcome
               /\ pending' = [pending EXCEPT ![p] = Request(cfg)]
  /\ UNCHANGED <<gvars, xvars>>
  /\ UNCHANGED <<items, embeddings, queryEmb, idx, unobtained, out, result>>

\* The catch of the query fetch: lexical-only results.
QueryFallback(p) ==
  /\ result' = [result EXCEPT ![p] = LexicalOnly(lex[p], topKOf[p])]
  /\ outcome' = [outcome EXCEPT ![p] = "returned"]
  /\ pc' = [pc EXCEPT ![p] = "done"]
  /\ pending' = [pending EXCEPT ![p] = "none"]
  /\ UNCHANGED <<gvars, xvars>>
  /\ UNCHANGED <<items, embeddings, cfgOf, topKOf, candOf, wOf, lexHits, recent, lex, queryEmb, idx,
                 unobtained, out>>

\* The awaited query fetch rejects: a configuration error, or the provider fails.
QueryFails(p) ==
  /\ pc[p] = "awaitQuery"
  /\ QueryFallback(p)

\* The awaited query fetch resolves with a vector.
QuerySucceeds(p, vec) ==
  /\ pc[p] = "awaitQuery"
  /\ pending[p] = "net"
  /\ queryEmb' = [queryEmb EXCEPT ![p] =
                    Some([vector |-> vec, dims |-> Len(vec), model |-> FetchModel(cfgOf[p])])]
  /\ pending' = [pending EXCEPT ![p] = "none"]
  /\ idx' = [idx EXCEPT ![p] = 1]
  /\ pc' = [pc EXCEPT ![p] = "loop"]
  /\ UNCHANGED <<gvars, xvars>>
  /\ UNCHANGED <<items, embeddings, cfgOf, topKOf, candOf, wOf, lexHits, recent, lex, unobtained,
                 out, result, outcome>>

\* SELECT model, dims, vector FROM embeddings WHERE item_id = ? AND model = ?
CacheRow(id, cfg) ==
  IF ~IsNull(embeddings[id]) /\ Val(embeddings[id]).model = LookupModel(cfg)
  THEN embeddings[id] ELSE Null

\* The rest of the loop body once the candidate's embedding (or null) is known:
\* cosine may throw; otherwise the entry is pushed, and after the last candidate
\* the list is sorted and cut to topK.
ScoreAndPush(p, itemEmb) ==
  LET r == lex[p][idx[p]]
      q == Val(queryEmb[p]).vector
  IN
  IF ~IsNull(itemEmb) /\ CosineThrows(q, Val(itemEmb).vector)
  THEN /\ pc' = [pc EXCEPT ![p] = "done"]
       /\ outcome' = [outcome EXCEPT ![p] = "threw"]
       /\ UNCHANGED <<out, idx, result>>
  ELSE LET sem == IF IsNull(itemEmb) THEN Null ELSE Some(cosine(q, Val(itemEmb).vector))
           pushed == Append(out[p], Scored(lex[p], wOf[p], r, sem))
       IN  /\ out' = [out EXCEPT ![p] = pushed]
           /\ IF idx[p] = Len(lex[p])
              THEN /\ result' = [result EXCEPT ![p] = Take(SortDesc(pushed), topKOf[p])]
                   /\ outcome' = [outcome EXCEPT ![p] = "returned"]
                   /\ pc' = [pc EXCEPT ![p] = "done"]
                   /\ idx' = idx
              ELSE /\ idx' = [idx EXCEPT ![p] = idx[p] + 1]
                   /\ pc' = [pc EXCEPT ![p] = "loop"]
                   /\ UNCHANGED <<result, outcome>>

\* getOrCreateItemEmbedding, the cache hit: the stored row is returned decoded.
ItemCacheHit(p) ==
  /\ pc[p] = "loop"
  /\ LET row == CacheRow(lex[p][idx[p]].id, cfgOf[p]) IN
     /\ ~IsNull(row)
     /\ ScoreAndPush(p, Some([model |-> Val(row).model, dims |-> Val(row).dims,
                              vector |-> blobToVector(Val(row).vector)]))
  /\ UNCHANGED <<gvars, xvars>>
  /\ UNCHANGED <<items, embeddings, cfgOf, topKOf, candOf, wOf, lexHits, recent, lex, pending,
                 queryEmb, unobtained>>

\* Mutant of ItemCacheMiss: the request is issued and the loop goes on without
\* awaiting it.
ItemCacheMissNoWait(p) ==
  /\ pc[p] = "loop"
  /\ IsNull(CacheRow(lex[p][idx[p]].id, cfgOf[p]))
  /\ pending' = [pending EXCEPT ![p] = Request(cfgOf[p])]
  /\ ScoreAndPush(p, Null)
  /\ UNCHANGED <<gvars, xvars>>
  /\ UNCHANGED <<items, embeddings, cfgOf, topKOf, candOf, wOf, lexHits, recent, lex, queryEmb,
                 unobtained>>

\* getOrCreateItemEmbedding, the cache miss: fetchEmbedding is called and awaited.
ItemCacheMiss(p) ==
  /\ pc[p] = "loop"
  /\ IsNull(CacheRow(lex[p][idx[p]].id, cfgOf[p]))
  /\ pending' = [pending EXCEPT ![p] = Request(cfgOf[p])]
  /\ pc' = [pc EXCEPT ![p] = "awaitItem"]
  /\ UNCHANGED <<gvars, xvars>>
  /\ UNCHANGED <<items, embeddings, cfgOf, topKOf, candOf, wOf, lexHits, recent, lex, queryEmb, idx,
                 unobtained, out, result, outcome>>

\* Mutant of Upsert: vector=excluded.vector is missing from the DO UPDATE.
UpsertKeepsVector(table, id, emb) ==
  [table EXCEPT ![id] =
     Some([model |-> emb.model, dims |-> emb.dims,
           vector |-> IF IsNull(table[id]) THEN vectorToBlob(emb.vector)
                      ELSE Val(table[id]).vector])]

\* Mutant of Upsert: on a conflict the stored model name is not updated.
UpsertKeepsModel(table, id, emb) ==
  [table EXCEPT ![id] = Some([model |-> IF IsNull(table[id]) THEN emb.model ELSE Val(table[id]).model,
                              dims |-> emb.dims, vector |-> vectorToBlob(emb.vector)])]

\* Mutant of Upsert: on a conflict the stored dims is not updated.
UpsertKeepsDims(table, id, emb) ==
  [table EXCEPT ![id] = Some([model |-> emb.model,
                              dims |-> IF IsNull(table[id]) THEN emb.dims ELSE Val(table[id]).dims,
                              vector |-> vectorToBlob(emb.vector)])]

\* INSERT INTO embeddings ... ON CONFLICT(item_id) DO UPDATE SET model, dims, vector
Upsert(table, id, emb) ==
  [table EXCEPT ![id] = Some([model |-> emb.model, dims |-> emb.dims,
                              vector |-> vectorToBlob(emb.vector)])]

\* The awaited item fetch resolves: the vector is persisted and returned.
ItemFetchSucceeds(p, vec) ==
  /\ pc[p] = "awaitItem"
  /\ pending[p] = "net"
  /\ LET emb == [vector |-> vec, dims |-> Len(vec), model |-> FetchModel(cfgOf[p])] IN
     /\ embeddings' = Upsert(embeddings, lex[p][idx[p]].id, emb)
     /\ ScoreAndPush(p, Some(emb))
  /\ pending' = [pending EXCEPT ![p] = "none"]
  /\ UNCHANGED <<gvars, xvars>>
  /\ UNCHANGED <<items, cfgOf, topKOf, candOf, wOf, lexHits, recent, lex, queryEmb, unobtained>>

\* The awaited item fetch rejects: the catch returns null.
ItemFetchFails(p) ==
  /\ pc[p] = "awaitItem"
  /\ unobtained' = [unobtained EXCEPT ![p] = unobtained[p] \cup {idx[p]}]
  /\ ScoreAndPush(p, Null)
  /\ pending' = [pending EXCEPT ![p] = "none"]
  /\ UNCHANGED <<gvars, xvars>>
  /\ UNCHANGED <<items, embeddings, cfgOf, topKOf, candOf, wOf, lexHits, recent, lex, queryEmb>>

\* The caller takes the result; the call's locals are gone.
Return(p) ==
  /\ pc[p] = "done"
  /\ pc' = [pc EXCEPT ![p] = "idle"]
  /\ cfgOf' = [cfgOf EXCEPT ![p] = CfgOllama]
  /\ topKOf' = [topKOf EXCEPT ![p] = DefaultTopK]
  /\ candOf' = [candOf EXCEPT ![p] = DefaultCandidatesFloor]
  /\ wOf' = [wOf EXCEPT ![p] = DefaultWeight]
  /\ lexHits' = [lexHits EXCEPT ![p] = <<>>]
  /\ recent' = [recent EXCEPT ![p] = <<>>]
  /\ lex' = [lex EXCEPT ![p] = <<>>]
  /\ queryEmb' = [queryEmb EXCEPT ![p] = Null]
  /\ idx' = [idx EXCEPT ![p] = 0]
  /\ unobtained' = [unobtained EXCEPT ![p] = {}]
  /\ out' = [out EXCEPT ![p] = <<>>]
  /\ result' = [result EXCEPT ![p] = <<>>]
  /\ outcome' = [outcome EXCEPT ![p] = "none"]
  /\ UNCHANGED <<gvars, xvars>>
  /\ UNCHANGED <<items, embeddings, pending>>

(***************************************************************************)
(* Facts and the knowledge graph.                                          *)
(***************************************************************************)
MaxFacts == 3
MaxDepthArg == 3
MaxPathsArg == 2

\* Entity names are strings, here sequences of characters.
Entities == {<<"A">>, <<"B">>, <<"C">>}

\* Confidence is kept in tenths: 7 is 0.7.
DefaultConfidence == 7

GraphInit ==
  /\ facts = <<>>
  /\ gpc = "idle"
  /\ fromEntity = <<"A">>
  /\ toEntity = <<"A">>
  /\ maxDepth = 0
  /\ maxPaths = 0
  /\ queue = <<>>
  /\ visited = {}
  /\ paths = <<>>
  /\ gResult = <<>>

\* insertItem stores input.entity_id ?? null (and so on); no filtered call in progress.
NoAttribution == [entity_id |-> Null, process_id |-> Null, session_id |-> Null]

FilterInit ==
  /\ attribution = [i \in ItemIds |-> NoAttribution]
  /\ filterOf = [p \in Procs |-> Null]
  /\ fResult = [p \in Procs |-> Null]

QueryInit == qCall = [op |-> "none"]

CodecInit ==
  /\ half = Null
  /\ single = Null
  /\ requantized = Null
  /\ cosCall = Null

EscapeInit == escCall = Null

StmInit ==
  /\ stm = [i \in StmIds |-> Null]
  /\ stmCall = [op |-> "none"]

Init == SearchInit /\ GraphInit /\ FilterInit /\ QueryInit /\ CodecInit /\ EscapeInit /\ StmInit

\* insertFact: INSERT INTO facts (...) with the confidence as given.  The id is a
\* fresh UUID of the caller: a row is identified by its place in the table.
insertFact(subject, predicate, object, confidence) ==
  /\ gpc = "idle"
  /\ Len(facts) < MaxFacts
  /\ facts' = Append(facts, [subject |-> subject, predicate |-> predicate,
                             object |-> object, confidence |-> confidence])
  /\ UNCHANGED <<gpc, fromEntity, toEntity, maxDepth, maxPaths, queue, visited, paths, gResult>>
  /\ UNCHANGED <<svars, xvars>>

\* deleteFact: DELETE FROM facts WHERE id = ? (the id of row k).
deleteFact(k) ==
  /\ gpc = "idle"
  /\ k \in DOMAIN facts
  /\ facts' = [n \in 1..(Len(facts) - 1) |-> IF n < k THEN facts[n] ELSE facts[n + 1]]
  /\ UNCHANGED <<gpc, fromEntity, toEntity, maxDepth, maxPaths, queue, visited, paths, gResult>>
  /\ UNCHANGED <<svars, xvars>>

\* Number(s) of a --confidence option value (tenths).
NumberOf(s) ==
  CASE s = "-0.5" -> -5
    [] s = "0.7"  -> 7
    [] s = "1"    -> 10
    [] OTHER      -> 15

ConfidenceStrings == {"-0.5", "0.7", "1", "1.5"}
ConfidenceNumbers == {-5, 0, 7, 15}

\* CLI add-fact: Math.max(0, Math.min(1, Number(cmdOpts.confidence ?? 0.7))), then insertFact.
cliAddFact(subject, predicate, object, confidenceOpt) ==
  LET given == IF IsNull(confidenceOpt) THEN DefaultConfidence ELSE NumberOf(Val(confidenceOpt))
  IN  insertFact(subject, predicate, object, Max(0, Min(10, given)))

\* MCP fact_add: insertFact with params.confidence ?? 0.7.
mcpFactAdd(subject, predicate, object, confidenceOpt) ==
  insertFact(subject, predicate, object,
             IF IsNull(confidenceOpt) THEN DefaultConfidence ELSE Val(confidenceOpt))

GraphEdge(f) ==
  [subject |-> f.subject, predicate |-> f.predicate, object |-> f.object,
   confidence |-> f.confidence]

\* Mutant of AdjacencyFrom: the neighbour recorded for a fact is the fact's
\* subject on both lists.
RECURSIVE AdjacencyFromSubjectOnly(_, _)
AdjacencyFromSubjectOnly(rows, e) ==
  IF rows = <<>> THEN <<>>
  ELSE LET f == Head(rows)
           asSubject == IF f.subject = e THEN <<[entity |-> f.subject, edge |-> GraphEdge(f)]>>
                        ELSE <<>>
           asObject == IF f.object = e THEN <<[entity |-> f.subject, edge |-> GraphEdge(f)]>>
                       ELSE <<>>
       IN  asSubject \o asObject \o AdjacencyFromSubjectOnly(Tail(rows), e)

\* adjacency.get(e) || []: for each fact in table order, the subject's list gets
\* {object, edge} and the object's list gets {subject, edge}.
RECURSIVE AdjacencyFrom(_, _)
AdjacencyFrom(rows, e) ==
  IF rows = <<>> THEN <<>>
  ELSE LET f == Head(rows)
           asSubject == IF f.subject = e THEN <<[entity |-> f.object, edge |-> GraphEdge(f)]>>
                        ELSE <<>>
           asObject == IF f.object = e THEN <<[entity |-> f.subject, edge |-> GraphEdge(f)]>>
                       ELSE <<>>
       IN  asSubject \o asObject \o AdjacencyFrom(Tail(rows), e)

Adjacency(e) == AdjacencyFrom(facts, e)

\* `${current.entity}|${neighbor.entity}`
PathKey(a, b) == a \o <<"|">> \o b

\* Mutant of Expand: the visited set is not consulted (every path explores its
\* own traversals).
RECURSIVE ExpandRevisiting(_, _, _, _)
ExpandRevisiting(neighbors, current, q, seen) ==
  IF neighbors = <<>> THEN <<q, seen>>
  ELSE LET n == Head(neighbors)
           key == PathKey(current.entity, n.entity)
       IN  ExpandRevisiting(Tail(neighbors), current,
                            Append(q, [entity |-> n.entity,
                                       path |-> Append(current.path,
                                                       [entity |-> n.entity, edge |-> Some(n.edge)])]),
                            seen \cup {key})

\* Mutant of Expand: visited.add(pathKey) is missing.
RECURSIVE ExpandForgetting(_, _, _, _)
ExpandForgetting(neighbors, current, q, seen) ==
  IF neighbors = <<>> THEN <<q, seen>>
  ELSE LET n == Head(neighbors)
           key == PathKey(current.entity, n.entity)
       IN  IF key \in seen THEN ExpandForgetting(Tail(neighbors), current, q, seen)
           ELSE ExpandForgetting(Tail(neighbors), current,
                                 Append(q, [entity |-> n.entity,
                                            path |-> Append(current.path,
                                                            [entity |-> n.entity, edge |-> Some(n.edge)])]),
                                 seen)

\* The for loop over the neighbours of `current`: returns <<queue, visited>>.
RECURSIVE Expand(_, _, _, _)
Expand(neighbors, current, q, seen) ==
  IF neighbors = <<>> THEN <<q, seen>>
  ELSE LET n == Head(neighbors)
           key == PathKey(current.entity, n.entity)
       IN  IF key \in seen THEN Expand(Tail(neighbors), current, q, seen)
           ELSE Expand(Tail(neighbors), current,
                       Append(q, [entity |-> n.entity,
                                  path |-> Append(current.path,
                                                  [entity |-> n.entity, edge |-> Some(n.edge)])]),
                       seen \cup {key})

\* findPaths up to its while loop.
StartFindPaths(from, to, depth, limit) ==
  /\ gpc = "idle"
  /\ gpc' = "bfs"
  /\ fromEntity' = from
  /\ toEntity' = to
  /\ maxDepth' = depth
  /\ maxPaths' = limit
  /\ queue' = <<[entity |-> from, path |-> <<[entity |-> from, edge |-> Null]>>]>>
  /\ visited' = {}
  /\ paths' = <<>>
  /\ UNCHANGED <<facts, gResult>>
  /\ UNCHANGED <<svars, xvars>>

\* Whether the dequeued entry is recorded as a path.
IsFound(current) == current.entity = toEntity /\ Len(current.path) > 1

\* Mutant of TooDeep: the depth test off by one.
TooDeepOffByOne(current) == Len(current.path) > maxDepth + 1

\* Mutant of TooDeep: entries are dropped one hop early.
TooDeepEarly(current) == Len(current.path) >= maxDepth

\* Whether the dequeued entry is dropped without expansion.
TooDeep(current) == Len(current.path) > maxDepth

\* Mutant of BfsStep: the head of the queue is read but not removed
\* (queue[0] in place of queue.shift()).
BfsStepPeeking ==
  /\ gpc = "bfs"
  /\ queue # <<>>
  /\ Len(paths) < maxPaths
  /\ LET current == Head(queue)
     IN  IF IsFound(current)
         THEN /\ paths' = Append(paths, [from |-> fromEntity, to |-> toEntity,
                                         path |-> current.path,
                                         length |-> Len(current.path) - 1])
              /\ UNCHANGED <<queue, visited>>
         ELSE IF TooDeep(current)
         THEN UNCHANGED <<queue, paths, visited>>
         ELSE LET e == Expand(Adjacency(current.entity), current, queue, visited)
              IN  /\ queue' = e[1]
                  /\ visited' = e[2]
                  /\ paths' = paths
  /\ UNCHANGED <<facts, gpc, fromEntity, toEntity, maxDepth, maxPaths, gResult>>
  /\ UNCHANGED <<svars, xvars>>

\* One iteration of while (queue.length > 0 && paths.length < maxPaths).
BfsStep ==
  /\ gpc = "bfs"
  /\ queue # <<>>
  /\ Len(paths) < maxPaths
  /\ LET current == Head(queue)
         rest == Tail(queue)
     IN  IF IsFound(current)
         THEN /\ paths' = Append(paths, [from |-> fromEntity, to |-> toEntity,
                                         path |-> current.path,
                                         length |-> Len(current.path) - 1])
              /\ queue' = rest
              /\ visited' = visited
         ELSE IF TooDeep(current)
         THEN /\ queue' = rest
              /\ UNCHANGED <<paths, visited>>
         ELSE LET e == Expand(Adjacency(current.entity), current, rest, visited)
              IN  /\ queue' = e[1]
                  /\ visited' = e[2]
                  /\ paths' = paths
  /\ UNCHANGED <<facts, gpc, fromEntity, toEntity, maxDepth, maxPaths, gResult>>
  /\ UNCHANGED <<svars, xvars>>

\* paths.sort((a, b) => a.length - b.length): a stable sort, ascending by length.
RECURSIVE InsertAsc(_, _)
InsertAsc(sorted, e) ==
  IF sorted = <<>> THEN <<e>>
  ELSE IF e.length < Head(sorted).length THEN <<e>> \o sorted
  ELSE <<Head(sorted)>> \o InsertAsc(Tail(sorted), e)

RECURSIVE SortAscFrom(_, _)
SortAscFrom(rest, sorted) ==
  IF rest = <<>> THEN sorted ELSE SortAscFrom(Tail(rest), InsertAsc(sorted, Head(rest)))

\* Mutant of SortByLength: the comparator reversed.
SortByLengthDescending(s) ==
  LET asc == SortAscFrom(s, <<>>) IN [k \in DOMAIN asc |-> asc[Len(asc) + 1 - k]]

SortByLength(s) == SortAscFrom(s, <<>>)

\* The loop exits: return paths.sort(...).
BfsReturn ==
  /\ gpc = "bfs"
  /\ ~(queue # <<>> /\ Len(paths) < maxPaths)
  /\ gResult' = SortByLength(paths)
  /\ gpc' = "done"
  /\ UNCHANGED <<facts, fromEntity, toEntity, maxDepth, maxPaths, queue, visited, paths>>
  /\ UNCHANGED <<svars, xvars>>

\* The caller takes the result; the call's locals are gone.
GraphDone ==
  /\ gpc = "done"
  /\ gpc' = "idle"
  /\ fromEntity' = <<"A">>
  /\ toEntity' = <<"A">>
  /\ maxDepth' = 0
  /\ maxPaths' = 0
  /\ queue' = <<>>
  /\ visited' = {}
  /\ paths' = <<>>
  /\ gResult' = <<>>
  /\ UNCHANGED facts
  /\ UNCHANGED <<svars, xvars>>

(***************************************************************************)
(* filterResults and hybridSearchFiltered.  A FilterOpts field is <<>>     *)
(* when it is undefined (not supplied) and <<v>> when it is supplied, v an  *)
(* item field value: <<>> for null, <<s>> for the string s.                 *)
(***************************************************************************)
EntityIds == {"loic"}
ProcessIds == {"proc"}
SessionIds == {"s1"}

FieldValues(S) == {Null} \cup {Some(x) : x \in S}
FilterFields(S) == {Null} \cup {Some(v) : v \in FieldValues(S)}

Undefined == Null

\* The attributions items are inserted with.
Attributions ==
  [entity_id : FieldValues(EntityIds), process_id : {Null}, session_id : FieldValues(SessionIds)]

\* opts.filter: undefined, or a FilterOpts object.
FilterArgs ==
  {Undefined} \cup
  {Some(f) : f \in
     { [entity_id |-> Some(Some("loic")), process_id |-> Undefined, session_id |-> Undefined],
       [entity_id |-> Some(Null), process_id |-> Undefined, session_id |-> Undefined],
       [entity_id |-> Some(Some("loic")), process_id |-> Undefined, session_id |-> Some(Some("s1"))],
       [entity_id |-> Undefined, process_id |-> Some(Some("proc")), session_id |-> Undefined],
       [entity_id |-> Undefined, process_id |-> Undefined, session_id |-> Some(Some("s1"))] }}

\* Mutant of Passes: an item without attribution passes a supplied field.
PassesUnattributed(r, opts) ==
  LET a == attribution[r.id] IN
  /\ (IsNull(opts.entity_id) \/ IsNull(a.entity_id) \/ a.entity_id = Val(opts.entity_id))
  /\ (IsNull(opts.process_id) \/ IsNull(a.process_id) \/ a.process_id = Val(opts.process_id))
  /\ (IsNull(opts.session_id) \/ IsNull(a.session_id) \/ a.session_id = Val(opts.session_id))

\* The callback of results.filter: false as soon as a supplied field differs.
Passes(r, opts) ==
  LET a == attribution[r.id] IN
  /\ ~(~IsNull(opts.entity_id) /\ a.entity_id # Val(opts.entity_id))
  /\ ~(~IsNull(opts.process_id) /\ a.process_id # Val(opts.process_id))
  /\ ~(~IsNull(opts.session_id) /\ a.session_id # Val(opts.session_id))

filterResults(results, opts) == SelectSeq(results, LAMBDA r : Passes(r, opts))

\* insertItem with attribution fields in the input.
insertItemWith(id, created_at, rank, attr) ==
  /\ IsNull(items[id])
  /\ items' = [items EXCEPT ![id] = Some([created_at |-> created_at, rank |-> rank])]
  /\ attribution' = [attribution EXCEPT ![id] = attr]
  /\ UNCHANGED <<gvars, qvars, cvars, evars, mvars>>
  /\ UNCHANGED <<filterOf, fResult>>
  /\ UNCHANGED <<embeddings, pc, cfgOf, topKOf, candOf, wOf, lexHits, recent, lex, pending,
                 queryEmb, idx, unobtained, out, result, outcome>>

\* hybridSearchFiltered is called with opts.filter = filterArg.
CallFiltered(p, filterArg) ==
  /\ pc[p] = "idle"
  /\ IsNull(filterOf[p])
  /\ filterOf' = [filterOf EXCEPT ![p] = Some(filterArg)]
  /\ UNCHANGED <<svars, gvars, qvars, cvars, evars, mvars>>
  /\ UNCHANGED <<attribution, fResult>>

\* Its call of hybridSearch(db, cfg, query, opts).
FilteredStart(p, cfg, topKOpt, candOpt, wOpt) ==
  /\ ~IsNull(filterOf[p])
  /\ IsNull(fResult[p])
  /\ StartSearch(p, cfg, topKOpt, candOpt, wOpt)

\* hybridSearch has settled: its rejection propagates; otherwise the results
\* are returned as they are (no filter) or filtered.
FilterReturn(p) ==
  /\ pc[p] = "done"
  /\ ~IsNull(filterOf[p])
  /\ IsNull(fResult[p])
  /\ fResult' = [fResult EXCEPT ![p] =
       IF outcome[p] = "threw" THEN Some([outcome |-> "threw", value |-> <<>>])
       ELSE IF IsNull(Val(filterOf[p])) THEN Some([outcome |-> "returned", value |-> result[p]])
       ELSE Some([outcome |-> "returned",
                  value |-> filterResults(result[p], Val(Val(filterOf[p])))])]
  /\ UNCHANGED <<svars, gvars, qvars, cvars, evars, mvars>>
  /\ UNCHANGED <<attribution, filterOf>>

\* The locals of the inner hybridSearch call are gone.
FilteredRelease(p) ==
  /\ ~IsNull(fResult[p])
  /\ Return(p)

\* The caller takes the filtered result.
FilteredDone(p) ==
  /\ pc[p] = "idle"
  /\ ~IsNull(fResult[p])
  /\ filterOf' = [filterOf EXCEPT ![p] = Null]
  /\ fResult' = [fResult EXCEPT ![p] = Null]
  /\ UNCHANGED <<svars, gvars, qvars, cvars, evars, mvars>>
  /\ UNCHANGED attribution

(***************************************************************************)
(* Graph queries over the facts table: getRelatedEntities, getGraphStats,  *)
(* exportGraphJson.  Each is one synchronous call; its return value is     *)
(* kept in qCall until the caller takes it.                                *)
(***************************************************************************)
\* Positions of the rows WHERE subject = ? OR object = ?
Touching(e) == {k \in DOMAIN facts : facts[k].subject = e \/ facts[k].object = e}

\* CASE WHEN subject = ? THEN object ELSE subject END AS related
RelatedOf(f, e) == IF f.subject = e THEN f.object ELSE f.subject

\* SELECT DISTINCT related ...: the distinct values, in an order SQLite chooses.
RelatedRows(e) == Perms({RelatedOf(facts[k], e) : k \in Touching(e)})

\* Mutant of KeepOthers: nothing is filtered out.
KeepAll(rows, e) == rows

\* rows.map(r => r.related).filter(e => e !== entity)
KeepOthers(rows, e) == SelectSeq(rows, LAMBDA x : x # e)

getRelatedEntities(entity) ==
  /\ qCall.op = "none"
  /\ \E rows \in RelatedRows(entity) :
       qCall' = [op |-> "getRelatedEntities", args |-> <<entity>>,
                 value |-> KeepOthers(rows, entity)]
  /\ UNCHANGED <<svars, gvars, fvars, cvars, evars, mvars>>

\* SELECT COUNT(*) FROM facts
TotalFacts == Len(facts)

\* Mutant of TotalEntities: UNION ALL in place of UNION.
TotalEntitiesUnionAll == 2 * Len(facts)

\* SELECT COUNT(DISTINCT entity) FROM (SELECT subject ... UNION SELECT object ...)
TotalEntities ==
  Cardinality({facts[k].subject : k \in DOMAIN facts} \cup {facts[k].object : k \in DOMAIN facts})

\* SELECT COUNT(DISTINCT predicate) FROM facts
TotalPredicates == Cardinality({facts[k].predicate : k \in DOMAIN facts})

\* Math.round(n / d) for n >= 0, d > 0: the nearest integer, halves upwards.
MathRound(n, d) == (2 * n + d) \div (2 * d)

\* Math.round((totalFacts * 2 / totalEntities) * 10) / 10, in tenths; 0 without entities.
AvgConnections ==
  IF TotalEntities > 0 THEN MathRound(TotalFacts * 2 * 10, TotalEntities) ELSE 0

\* The two top-10 lists of the result are not part of the model.
getGraphStats ==
  /\ qCall.op = "none"
  /\ qCall' = [op |-> "getGraphStats", args |-> <<>>,
               value |-> [totalFacts |-> TotalFacts, totalEntities |-> TotalEntities,
                          totalPredicates |-> TotalPredicates,
                          avgConnectionsPerEntity |-> AvgConnections]]
  /\ UNCHANGED <<svars, gvars, fvars, cvars, evars, mvars>>

DefaultExportLimit == 1000

\* `if (options?.minConfidence)`: a number is truthy unless it is 0.
Truthy(numberOpt) == ~IsNull(numberOpt) /\ Val(numberOpt) # 0

\* Mutant of ExportBranch: the confidence threshold tested first.
ExportBranchConfidenceFirst(entityOpt, minOpt) ==
  IF Truthy(minOpt) THEN "minConfidence"
  ELSE IF ~IsNull(entityOpt) THEN "entity"
  ELSE "all"

\* The if / else if / else of exportGraphJson (entity names are non-empty strings).
ExportBranch(entityOpt, minOpt) ==
  IF ~IsNull(entityOpt) THEN "entity"
  ELSE IF Truthy(minOpt) THEN "minConfidence"
  ELSE "all"

\* The positions selected by the WHERE clause of the branch taken.
ExportSelected(entityOpt, minOpt) ==
  CASE ExportBranch(entityOpt, minOpt) = "entity" -> Touching(Val(entityOpt))
    [] ExportBranch(entityOpt, minOpt) = "minConfidence" ->
         {k \in DOMAIN facts : facts[k].confidence >= Val(minOpt)}
    [] OTHER -> DOMAIN facts

\* ORDER BY confidence DESC LIMIT ?: rows of equal confidence in an order SQLite chooses.
OrderedByConfidence(S, limit) ==
  {Take([k \in DOMAIN f |-> facts[f[k]]], limit) :
     f \in {g \in Perms(S) :
              \A a, b \in DOMAIN g : a < b => facts[g[a]].confidence >= facts[g[b]].confidence}}

\* nodeSet: subjects and objects in row order, each once.
RECURSIVE NodeSetFrom(_, _)
NodeSetFrom(rows, nodes) ==
  IF rows = <<>> THEN nodes
  ELSE LET withS == IF \E k \in DOMAIN nodes : nodes[k] = Head(rows).subject
                    THEN nodes ELSE Append(nodes, Head(rows).subject)
           withO == IF \E k \in DOMAIN withS : withS[k] = Head(rows).object
                    THEN withS ELSE Append(withS, Head(rows).object)
       IN  NodeSetFrom(Tail(rows), withO)

ExportEdge(f) ==
  [from |-> f.subject, to |-> f.object, label |-> f.predicate, confidence |-> f.confidence]

exportGraphJson(limitOpt, minOpt, entityOpt) ==
  LET limit == IF IsNull(limitOpt) THEN DefaultExportLimit ELSE Val(limitOpt) IN
  /\ qCall.op = "none"
  /\ \E rows \in OrderedByConfidence(ExportSelected(entityOpt, minOpt), limit) :
       qCall' = [op |-> "exportGraphJson", args |-> <<limitOpt, minOpt, entityOpt>>,
                 value |-> [nodes |-> [k \in DOMAIN NodeSetFrom(rows, <<>>) |->
                                         [id |-> NodeSetFrom(rows, <<>>)[k],
                                          label |-> NodeSetFrom(rows, <<>>)[k]]],
                            edges |-> [k \in DOMAIN rows |-> ExportEdge(rows[k])]]]
  /\ UNCHANGED <<svars, gvars, fvars, cvars, evars, mvars>>

\* The caller takes the value.
QueryReturn ==
  /\ qCall.op # "none"
  /\ qCall' = [op |-> "none"]
  /\ UNCHANGED <<svars, gvars, fvars, cvars, evars, mvars>>

\* The MCP tools that write facts, handled once the previous tool's value has
\* been returned.
fact_add(subject, predicate, object, confidenceOpt) ==
  /\ qCall.op = "none"
  /\ mcpFactAdd(subject, predicate, object, confidenceOpt)

fact_delete(k) ==
  /\ qCall.op = "none"
  /\ deleteFact(k)

\* Inputs of the graph queries.
QueryConfidences == {3, 7}
LimitOpts == {Null, Some(1)}
MinConfidenceOpts == {Null, Some(0), Some(5)}
EntityOpts == {Null} \cup {Some(e) : e \in Entities}

(***************************************************************************)
(* The half-precision codec.  A Float32Array element is its IEEE-754       *)
(* single-precision pattern [sign, exponent, mantissa] (8-bit exponent of  *)
(* bias 127, 23-bit mantissa); a Uint16Array element is an integer in      *)
(* 0..65535.                                                               *)
(***************************************************************************)
HalfPatterns == 0..(2^16 - 1)

F32NaN == [sign |-> 0, exponent |-> 255, mantissa |-> 2^22]
F32Infinity(sign) == [sign |-> sign, exponent |-> 255, mantissa |-> 0]
F32Zero(sign) == [sign |-> sign, exponent |-> 0, mantissa |-> 0]

RECURSIVE BitLength(_)
BitLength(n) == IF n = 0 THEN 0 ELSE 1 + BitLength(n \div 2)

\* Math.clz32 of a non-negative 32-bit integer.
clz32(n) == 32 - BitLength(n)

\* The Float32Array element holding (sign ? -1 : 1) * n * 2^k, for 0 < n < 2^24
\* and a magnitude in single precision's normal range (the store is exact).
ToFloat32(sign, n, k) ==
  LET b == BitLength(n) - 1 IN
  [sign |-> sign, exponent |-> b + k + 127, mantissa |-> (n - 2^b) * 2^(23 - b)]

\* Number.isNaN(f)
IsNaN32(f) == f.exponent = 255 /\ f.mantissa # 0

\* One iteration of the loop of quantizeF32ToF16 (the Uint16Array store keeps 16 bits).
QuantizeOne(f) ==
  LET sign == f.sign
      rebiased == f.exponent - 127 + 15
      h == IF IsNaN32(f) THEN 32256
           ELSE IF f = F32Infinity(0) THEN 31744
           ELSE IF f = F32Infinity(1) THEN 64512
           ELSE IF f.exponent = 0 THEN sign * 2^15
           ELSE IF f.exponent = 255 THEN sign * 2^15 + 31744 + (IF f.mantissa # 0 THEN 512 ELSE 0)
           ELSE IF rebiased >= 31 THEN sign * 2^15 + 31744
           ELSE IF rebiased <= 0
                THEN IF rebiased < -10 THEN sign * 2^15
                     ELSE sign * 2^15 + ((f.mantissa + 2^23) \div 2^(14 - rebiased))
           ELSE sign * 2^15 + rebiased * 2^10 + (f.mantissa \div 2^13)
  IN  h % 2^16

quantizeF32ToF16(vec) == [i \in DOMAIN vec |-> QuantizeOne(vec[i])]

\* One iteration of the loop of dequantizeF16ToF32.
DequantizeOne(h) ==
  LET sign == (h \div 2^15) % 2
      exponent == (h \div 2^10) % 32
      mantissa == h % 2^10
  IN  IF exponent = 0
      THEN IF mantissa = 0 THEN F32Zero(sign)
           ELSE LET e == clz32(mantissa) - 21
                IN  ToFloat32(sign, mantissa * 2^e, -24)
      ELSE IF exponent = 31
      THEN IF mantissa # 0 THEN F32NaN ELSE F32Infinity(sign)
      ELSE ToFloat32(sign, 1024 + mantissa, exponent - 15 - 10)

dequantizeF16ToF32(vec) == [i \in DOMAIN vec |-> DequantizeOne(vec[i])]

\* dequantizeF16ToF32 is called on a one-element Uint16Array.
DequantizeCall ==
  /\ half = Null
  /\ cosCall = Null
  /\ \E h \in HalfPatterns :
       /\ half' = Some(<<h>>)
       /\ single' = Some(dequantizeF16ToF32(<<h>>))
  /\ UNCHANGED <<requantized, cosCall>>
  /\ UNCHANGED <<svars, gvars, fvars, qvars, evars, mvars>>

\* quantizeF32ToF16 is called on its result.
QuantizeCall ==
  /\ single # Null
  /\ requantized = Null
  /\ requantized' = Some(quantizeF32ToF16(Val(single)))
  /\ UNCHANGED <<half, single, cosCall>>
  /\ UNCHANGED <<svars, gvars, fvars, qvars, evars, mvars>>

\* The caller takes the values.
CodecReturn ==
  /\ \/ requantized # Null
     \/ cosCall # Null
  /\ half' = Null
  /\ single' = Null
  /\ requantized' = Null
  /\ cosCall' = Null
  /\ UNCHANGED <<svars, gvars, fvars, qvars, evars, mvars>>

(***************************************************************************)
(* cosineSimilarity.  Its accumulators are JavaScript numbers: a finite    *)
(* value, an infinity or NaN.  The components used are small integers and  *)
(* the special values, so the sums and products are exact; the             *)
(* denominator sqrt(normA) * sqrt(normB) is kept as its square.            *)
(***************************************************************************)
MaxDims == 2

XNum(n) == [k |-> "num", v |-> n]
XInf(s) == [k |-> "inf", v |-> s]
XNaN == [k |-> "nan", v |-> 0]

Signum(n) == IF n > 0 THEN 1 ELSE IF n < 0 THEN -1 ELSE 0

\* The number read from a Float32Array element (integer-valued, or special).
ElementValue(f) ==
  IF IsNaN32(f) THEN XNaN
  ELSE IF f.exponent = 255 THEN XInf(1 - 2 * f.sign)
  ELSE IF f.exponent = 0 /\ f.mantissa = 0 THEN XNum(0)
  ELSE XNum((1 - 2 * f.sign) * ((2^23 + f.mantissa) \div 2^(150 - f.exponent)))

\* IEEE-754 multiplication and addition.
XMul(a, b) ==
  IF a.k = "nan" \/ b.k = "nan" THEN XNaN
  ELSE IF a.k = "num" /\ b.k = "num" THEN XNum(a.v * b.v)
  ELSE IF Signum(a.v) * Signum(b.v) = 0 THEN XNaN
  ELSE XInf(Signum(a.v) * Signum(b.v))

XAdd(a, b) ==
  IF a.k = "nan" \/ b.k = "nan" THEN XNaN
  ELSE IF a.k = "num" /\ b.k = "num" THEN XNum(a.v + b.v)
  ELSE IF a.k = "inf" /\ b.k = "inf" THEN (IF a.v = b.v THEN a ELSE XNaN)
  ELSE IF a.k = "inf" THEN a ELSE b

\* The accumulator after the first n iterations of the loop, for x[i] * y[i].
RECURSIVE SumProducts(_, _, _)
SumProducts(x, y, n) ==
  IF n = 0 THEN XNum(0)
  ELSE XAdd(SumProducts(x, y, n - 1), XMul(ElementValue(x[n]), ElementValue(y[n])))

\* The value n / sqrt(rad) returned by the division, or a special value.
CosZero == [k |-> "num", n |-> 0, rad |-> 1]
CosNaN == [k |-> "nan", n |-> 0, rad |-> 1]

cosineSimilarity(a, b) ==
  IF Len(a) # Len(b) THEN [outcome |-> "threw", value |-> CosNaN]
  ELSE
    LET dotProduct == SumProducts(a, b, Len(a))
        normA == SumProducts(a, a, Len(a))
        normB == SumProducts(b, b, Len(b))
        denomSquared == XMul(normA, normB)
        quotient ==
          IF denomSquared.k = "nan" \/ dotProduct.k = "nan" THEN CosNaN
          ELSE IF denomSquared.k = "inf"
               THEN (IF dotProduct.k = "inf" THEN CosNaN ELSE CosZero)
          ELSE [k |-> dotProduct.k, n |-> dotProduct.v, rad |-> denomSquared.v]
    IN  [outcome |-> "returned",
         value |-> IF denomSquared = XNum(0) THEN CosZero ELSE quotient]

\* Float32Array elements the calls are made with: 0, 1, -1, Infinity,
\* -Infinity and NaN.
CosComponents ==
  {F32Zero(0), ToFloat32(0, 1, 0), ToFloat32(1, 1, 0),
   F32Infinity(0), F32Infinity(1), F32NaN}

CosVectors == UNION {[1..n -> CosComponents] : n \in 0..MaxDims}

CosineSimilarityCall ==
  /\ cosCall = Null
  /\ half = Null
  /\ \E a, b \in CosVectors :
       cosCall' = Some([a |-> a, b |-> b, result |-> cosineSimilarity(a, b)])
  /\ UNCHANGED <<half, single, requantized>>
  /\ UNCHANGED <<svars, gvars, fvars, qvars, evars, mvars>>

(***************************************************************************)
(* escapeFts5Query.  A string is a sequence of characters; the alphabet    *)
(* holds a letter, a digit, the underscore, a white-space character, a     *)
(* punctuation character and the double quote.                             *)
(***************************************************************************)
MaxQueryLen == 4

Quote == "\""
Chars == {"a", "7", "_", " ", ":", Quote}
Queries == UNION {[1..n -> Chars] : n \in 0..MaxQueryLen}

\* \s
IsSpace(c) == c = " "
\* [\p{L}\p{N}_]
IsWord(c) == c \in {"a", "7", "_"}

RECURSIVE TrimStart(_)
TrimStart(q) ==
  IF q # <<>> /\ IsSpace(Head(q)) THEN TrimStart(Tail(q)) ELSE q

RECURSIVE TrimEnd(_)
TrimEnd(q) ==
  IF q # <<>> /\ IsSpace(q[Len(q)]) THEN TrimEnd(SubSeq(q, 1, Len(q) - 1)) ELSE q

\* String.prototype.trim
trim(q) == TrimEnd(TrimStart(q))

\* The matcher of /^[\p{L}\p{N}_]+(?:\s+[\p{L}\p{N}_]+)*$/u after the first n
\* characters: "start" (a token must begin), "word" (inside a token),
\* "space" (inside a separator) or "fail".
RECURSIVE SimpleState(_, _)
SimpleState(q, n) ==
  IF n = 0 THEN "start"
  ELSE LET before == SimpleState(q, n - 1)
           c == q[n]
       IN  IF before = "fail" THEN "fail"
           ELSE IF IsWord(c) THEN "word"
           ELSE IF IsSpace(c) /\ before \in {"word", "space"} THEN "space"
           ELSE "fail"

\* simple.test(q)
simple(q) == SimpleState(q, Len(q)) = "word"

\* q.replace(/"/, '""') without the g flag: only the first quote is doubled.
RECURSIVE ReplaceFirstQuote(_)
ReplaceFirstQuote(q) ==
  IF q = <<>> THEN <<>>
  ELSE IF Head(q) = Quote THEN <<Quote, Quote>> \o Tail(q)
  ELSE <<Head(q)>> \o ReplaceFirstQuote(Tail(q))

\* q.replace(/"/g, '""')
RECURSIVE ReplaceQuotes(_)
ReplaceQuotes(q) ==
  IF q = <<>> THEN <<>>
  ELSE IF Head(q) = Quote THEN <<Quote, Quote>> \o ReplaceQuotes(Tail(q))
  ELSE <<Head(q)>> \o ReplaceQuotes(Tail(q))

escapeFts5Query(query) ==
  LET q == trim(query) IN
  IF q = <<>> THEN <<Quote, Quote>>
  ELSE IF simple(q) THEN q
  ELSE <<Quote>> \o ReplaceQuotes(q) \o <<Quote>>

\* escapeFts5Query is called with a query.
EscapeCall ==
  /\ escCall = Null
  /\ \E query \in Queries :
       escCall' = Some([query |-> query, escaped |-> escapeFts5Query(query)])
  /\ UNCHANGED <<svars, gvars, fvars, qvars, cvars, mvars>>

\* The caller takes the escaped query.
EscapeReturn ==
  /\ escCall # Null
  /\ escCall' = Null
  /\ UNCHANGED <<svars, gvars, fvars, qvars, cvars, mvars>>

(***************************************************************************)
(* findPaths over a store that already holds up to MaxWideFacts facts      *)
(* among four entities, each fact running from an entity to a later one.   *)
(***************************************************************************)
MaxWideFacts == 4

WideEntities == <<(<<"A">>), (<<"B">>), (<<"C">>), (<<"D">>)>>

WideFacts ==
  {[subject |-> WideEntities[pr[1]], predicate |-> "p", object |-> WideEntities[pr[2]],
    confidence |-> DefaultConfidence] : pr \in {x \in (1..4) \X (1..4) : x[1] < x[2]}}

\* The facts tables the store may hold when findPaths is called.
WideTables == UNION {[1..n -> WideFacts] : n \in 0..MaxWideFacts}

WideGraphInit ==
  /\ SearchInit /\ FilterInit /\ QueryInit /\ CodecInit /\ EscapeInit /\ StmInit
  /\ facts \in WideTables
  /\ gpc = "idle"
  /\ fromEntity = <<"A">>
  /\ toEntity = <<"A">>
  /\ maxDepth = 0
  /\ maxPaths = 0
  /\ queue = <<>>
  /\ visited = {}
  /\ paths = <<>>
  /\ gResult = <<>>

WideGraphNext ==
  \/ \E to \in {<<"C">>, <<"D">>}, d \in 0..MaxDepthArg, m \in 0..MaxPathsArg :
       StartFindPaths(<<"A">>, to, d, m)
  \/ BfsStep
  \/ BfsReturn
  \/ GraphDone

(***************************************************************************)
(* searchFacts.  A text is a sequence of characters; the predicate of the  *)
(* stored facts is a one-character name.                                   *)
(***************************************************************************)
DefaultSearchLimit == 50

\* The stored text of a predicate name.
PredicateText(predicate) == <<predicate>>

\* SQLite's LIKE folds the case of ASCII letters.
FoldCase(c) ==
  CASE c = "a" -> "A"
    [] c = "b" -> "B"
    [] c = "c" -> "C"
    [] c = "p" -> "P"
    [] OTHER -> c

\* text LIKE pattern (no ESCAPE clause): % matches any run of characters, _ any
\* one character, any other character itself up to case.
RECURSIVE Like(_, _)
Like(text, pattern) ==
  IF pattern = <<>> THEN text = <<>>
  ELSE IF Head(pattern) = "%"
       THEN \E k \in 0..Len(text) : Like(SubSeq(text, k + 1, Len(text)), Tail(pattern))
  ELSE IF text = <<>> THEN FALSE
  ELSE IF Head(pattern) = "_" THEN Like(Tail(text), Tail(pattern))
  ELSE FoldCase(Head(pattern)) = FoldCase(Head(text)) /\ Like(Tail(text), Tail(pattern))

\* `%${query}%`
SearchPattern(query) == <<"%">> \o query \o <<"%">>

\* WHERE subject LIKE ? OR predicate LIKE ? OR object LIKE ?
SearchMatches(query) ==
  {k \in DOMAIN facts :
     \/ Like(facts[k].subject, SearchPattern(query))
     \/ Like(PredicateText(facts[k].predicate), SearchPattern(query))
     \/ Like(facts[k].object, SearchPattern(query))}

\* searchFacts(db, query, limit = 50): the matching rows ORDER BY confidence
\* DESC, created_at DESC LIMIT ?.  created_at is what each caller supplied, so
\* rows of equal confidence come in any order.
searchFacts(query, limitOpt) ==
  /\ qCall.op = "none"
  /\ LET limit == IF IsNull(limitOpt) THEN DefaultSearchLimit ELSE Val(limitOpt) IN
     \E rows \in OrderedByConfidence(SearchMatches(query), limit) :
       qCall' = [op |-> "searchFacts", args |-> <<query, limit>>, value |-> rows]
  /\ UNCHANGED facts
  /\ UNCHANGED <<gpc, fromEntity, toEntity, maxDepth, maxPaths, queue, visited, paths, gResult>>
  /\ UNCHANGED <<svars, fvars, cvars, evars, mvars>>

SearchQueries == {<<>>, <<"A">>, <<"a">>, <<"p">>, <<"_">>, <<"%">>, <<"A", "_">>}

(***************************************************************************)
(* Short-term memory: stm_insert, stm_maintain, stmLexicalSearch and       *)
(* stm_recall.  A row's rank is its FTS match against the query of the     *)
(* calls (0: no match); importance is kept in tenths.                      *)
(***************************************************************************)
DefaultImportance == 5
DefaultStmLimit == 10
DefaultRecallLimit == 10

StmStored == {i \in StmIds : ~IsNull(stm[i])}
StmRow(i) == Val(stm[i])

\* stm_insert with input.created_at given: expires_at = input.expires_at ??
\* (input.ttlMs ? now + input.ttlMs : null), importance = input.importance ?? 0.5.
\* The id is the primary key: a second insert of an id throws.
stm_insert(id, created_at, expiresOpt, ttlOpt, importanceOpt, rank) ==
  LET now == created_at
      expires_at == IF ~IsNull(expiresOpt) THEN expiresOpt
                    ELSE IF ~IsNull(ttlOpt) /\ Val(ttlOpt) # 0 THEN Some(now + Val(ttlOpt))
                    ELSE Null
      importance == IF IsNull(importanceOpt) THEN DefaultImportance ELSE Val(importanceOpt)
  IN  /\ stmCall.op = "none"
      /\ IsNull(stm[id])
      /\ stm' = [stm EXCEPT ![id] = Some([created_at |-> now, expires_at |-> expires_at,
                                          importance |-> importance, rank |-> rank])]
      /\ stmCall' = [op |-> "stm_insert", args |-> <<id, created_at, expiresOpt, ttlOpt>>,
                     value |-> [id |-> id, created_at |-> now, expires_at |-> expires_at,
                                importance |-> importance]]
      /\ UNCHANGED <<svars, gvars, fvars, qvars, cvars, evars>>

\* Mutant of StmExpired: expires_at < ? in place of expires_at <= ?.
StmExpiredStrict(i, now) ==
  ~IsNull(StmRow(i).expires_at) /\ Val(StmRow(i).expires_at) < now

\* expires_at IS NOT NULL AND expires_at <= ?
StmExpired(i, now) ==
  ~IsNull(StmRow(i).expires_at) /\ Val(StmRow(i).expires_at) <= now

\* SELECT id FROM stm_items ORDER BY importance ASC, created_at ASC LIMIT ?:
\* the sets of ids the subquery may return over the rows in S.
LeastImportant(S, n) ==
  {{f[k] : k \in 1..n} :
     f \in {g \in Perms(S) :
              \A a, b \in DOMAIN g :
                a < b =>
                  \/ StmRow(g[a]).importance < StmRow(g[b]).importance
                  \/ /\ StmRow(g[a]).importance = StmRow(g[b]).importance
                     /\ StmRow(g[a]).created_at <= StmRow(g[b]).created_at}}

\* stm_maintain(db, {now, maxItems}).
stm_maintain(now, maxItemsOpt) ==
  LET expired == {i \in StmStored : StmExpired(i, now)}
      left == StmStored \ expired
      total == Cardinality(left)
      trims == ~IsNull(maxItemsOpt) /\ Val(maxItemsOpt) > 0 /\ total > Val(maxItemsOpt)
  IN  /\ stmCall.op = "none"
      /\ \E victims \in (IF trims THEN LeastImportant(left, total - Val(maxItemsOpt)) ELSE {{}}) :
           /\ stm' = [i \in StmIds |-> IF i \in expired \cup victims THEN Null ELSE stm[i]]
           /\ stmCall' = [op |-> "stm_maintain", args |-> <<now, maxItemsOpt>>,
                          value |-> [deletedExpired |-> Cardinality(expired),
                                     deletedOverflow |-> Cardinality(victims),
                                     total |-> total - Cardinality(victims)]]
      /\ UNCHANGED <<svars, gvars, fvars, qvars, cvars, evars>>

\* Mutant of StmUnexpired: expires_at >= ? in place of expires_at > ?.
StmUnexpiredInclusive(i, now) ==
  IsNull(StmRow(i).expires_at) \/ Val(StmRow(i).expires_at) >= now

\* s.expires_at IS NULL OR s.expires_at > ?
StmUnexpired(i, now) ==
  IsNull(StmRow(i).expires_at) \/ Val(StmRow(i).expires_at) > now

\* The rows stmLexicalSearch(db, query, limit, now) may return: the matching,
\* unexpired rows ORDER BY bm25 ASC LIMIT ?, with lexicalScore = -bm25.
StmHits(limit, now) ==
  LET hits == {i \in StmStored : StmRow(i).rank > 0 /\ StmUnexpired(i, now)}
      ordered == {f \in Perms(hits) :
                    \A a, b \in DOMAIN f : a < b => -StmRow(f[a]).rank <= -StmRow(f[b]).rank}
  IN  {Take([k \in DOMAIN f |-> [id |-> f[k], expires_at |-> StmRow(f[k]).expires_at,
                                 lexicalScore |-> StmRow(f[k]).rank]], limit) :
         f \in ordered}

stmLexicalSearch(limitOpt, now) ==
  LET limit == IF IsNull(limitOpt) THEN DefaultStmLimit ELSE Val(limitOpt) IN
  /\ stmCall.op = "none"
  /\ \E rows \in StmHits(limit, now) :
       stmCall' = [op |-> "stmLexicalSearch", args |-> <<limit, now>>, value |-> rows]
  /\ UNCHANGED stm
  /\ UNCHANGED <<svars, gvars, fvars, qvars, cvars, evars>>

\* [...stm, ...ltm].sort((a, b) => b.lexicalScore - a.lexicalScore): stable.
RECURSIVE InsertByLexicalScore(_, _)
InsertByLexicalScore(sorted, e) ==
  IF sorted = <<>> THEN <<e>>
  ELSE IF Head(sorted).lexicalScore < e.lexicalScore THEN <<e>> \o sorted
  ELSE <<Head(sorted)>> \o InsertByLexicalScore(Tail(sorted), e)

RECURSIVE SortByLexicalScoreFrom(_, _)
SortByLexicalScoreFrom(rest, sorted) ==
  IF rest = <<>> THEN sorted
  ELSE SortByLexicalScoreFrom(Tail(rest), InsertByLexicalScore(sorted, Head(rest)))

\* stm_recall(db, query, {limit, includeLtm, stmLimit, ltmLimit, now}).
stm_recall(limitOpt, includeLtmOpt, stmLimitOpt, ltmLimitOpt, now) ==
  LET limit == IF IsNull(limitOpt) THEN DefaultRecallLimit ELSE Val(limitOpt)
      stmLimit == IF IsNull(stmLimitOpt) THEN limit ELSE Val(stmLimitOpt)
      ltmLimit == IF IsNull(ltmLimitOpt) THEN limit ELSE Val(ltmLimitOpt)
  IN
  /\ stmCall.op = "none"
  /\ \E rows \in StmHits(stmLimit, now),
        long \in (IF includeLtmOpt = Some(FALSE) THEN {<<>>} ELSE lexicalSearch(ltmLimit)) :
       LET short == [k \in DOMAIN rows |->
                       [id |-> rows[k].id, expires_at |-> rows[k].expires_at,
                        lexicalScore |-> rows[k].lexicalScore, scope |-> "stm"]]
           ltm == [k \in DOMAIN long |->
                     [id |-> long[k].id, expires_at |-> Null,
                      lexicalScore |-> long[k].lexicalScore, scope |-> "ltm"]]
       IN  stmCall' = [op |-> "stm_recall", args |-> <<limit, now>>,
                       value |-> Take(SortByLexicalScoreFrom(short \o ltm, <<>>), limit)]
  /\ UNCHANGED stm
  /\ UNCHANGED <<svars, gvars, fvars, qvars, cvars, evars>>

\* The caller takes the value.
StmReturn ==
  /\ stmCall.op # "none"
  /\ stmCall' = [op |-> "none"]
  /\ UNCHANGED stm
  /\ UNCHANGED <<svars, gvars, fvars, qvars, cvars, evars>>

\* insertItem while no short-term call is being looked at.
StmInsertItem(id, created_at, rank) ==
  /\ stmCall.op = "none"
  /\ insertItem(id, created_at, rank)

SearchNext ==
  \/ \E id \in ItemIds, c \in 1..MaxCreatedAt, r \in 0..MaxBm25 : insertItem(id, c, r)
  \/ \E p \in Solo, cfg \in Cfgs, k \in TopKOpts, c \in CandidateOpts, w \in WeightOpts :
       StartSearch(p, cfg, k, c, w)
  \/ \E p \in Solo : QueryFails(p)
  \/ \E p \in Solo, v \in Vecs : QuerySucceeds(p, v)
  \/ \E p \in Solo : ItemCacheHit(p)
  \/ \E p \in Solo : ItemCacheMiss(p)
  \/ \E p \in Solo, v \in Vecs : ItemFetchSucceeds(p, v)
  \/ \E p \in Solo : ItemFetchFails(p)
  \/ \E p \in Solo : Return(p)

GraphNext ==
  \/ \E s \in Entities, o \in Entities : insertFact(s, "p", o, DefaultConfidence)
  \/ \E k \in 1..MaxFacts : deleteFact(k)
  \/ \E from \in Entities, to \in Entities, d \in 0..MaxDepthArg, m \in 0..MaxPathsArg :
       StartFindPaths(from, to, d, m)
  \/ BfsStep
  \/ BfsReturn
  \/ GraphDone

\* A maxDepth no path of the bounded store reaches.
NoDepthLimit == 2 * MaxFacts + 2

GraphLiveNext ==
  \/ \E s \in Entities, o \in Entities : insertFact(s, "p", o, DefaultConfidence)
  \/ \E k \in 1..MaxFacts : deleteFact(k)
  \/ \E from \in Entities, to \in Entities, d \in {0, MaxDepthArg, NoDepthLimit},
        m \in {0, MaxPathsArg} :
       StartFindPaths(from, to, d, m)
  \/ BfsStep
  \/ BfsReturn
  \/ GraphDone

\* Two hybridSearch calls on one store, interleaved at their awaits.
RaceVecs == {<<1>>, <<0, 1>>}

RaceNext ==
  \/ \E id \in ItemIds : insertItem(id, 1, 1)
  \/ \E p \in Procs : StartSearch(p, CfgOllama, Null, Null, Null)
  \/ \E p \in Procs : QueryFails(p)
  \/ \E p \in Procs, v \in RaceVecs : QuerySucceeds(p, v)
  \/ \E p \in Procs : ItemCacheHit(p)
  \/ \E p \in Procs : ItemCacheMiss(p)
  \/ \E p \in Procs, v \in RaceVecs : ItemFetchSucceeds(p, v)
  \/ \E p \in Procs : ItemFetchFails(p)
  \/ \E p \in Procs : Return(p)

FactNext ==
  \/ \E s \in Entities, o \in Entities, c \in ConfidenceNumbers : insertFact(s, "p", o, c)
  \/ \E s \in Entities, o \in Entities, c \in {Null} \cup {Some(x) : x \in ConfidenceStrings} :
       cliAddFact(s, "p", o, c)
  \/ \E s \in Entities, o \in Entities, c \in {Null} \cup {Some(x) : x \in ConfidenceNumbers} :
       mcpFactAdd(s, "p", o, c)
  \/ \E k \in 1..MaxFacts : deleteFact(k)

FilterNext ==
  \/ \E id \in ItemIds, r \in 0..MaxBm25, a \in Attributions : insertItemWith(id, 1, r, a)
  \/ \E p \in Solo, f \in FilterArgs : CallFiltered(p, f)
  \/ \E p \in Solo, k \in TopKOpts : FilteredStart(p, CfgOllama, k, Null, Null)
  \/ \E p \in Solo : QueryFails(p)
  \/ \E p \in Solo, v \in {<<1>>} : QuerySucceeds(p, v)
  \/ \E p \in Solo : ItemCacheHit(p)
  \/ \E p \in Solo : ItemCacheMiss(p)
  \/ \E p \in Solo, v \in {<<1>>, <<-1>>} : ItemFetchSucceeds(p, v)
  \/ \E p \in Solo : ItemFetchFails(p)
  \/ \E p \in Solo : FilterReturn(p)
  \/ \E p \in Solo : FilteredRelease(p)
  \/ \E p \in Solo : FilteredDone(p)

QueryNext ==
  \/ \E s \in Entities, o \in Entities, c \in QueryConfidences : fact_add(s, "p", o, Some(c))
  \/ \E k \in 1..MaxFacts : fact_delete(k)
  \/ \E e \in Entities : getRelatedEntities(e)
  \/ getGraphStats
  \/ \E l \in LimitOpts, c \in MinConfidenceOpts, e \in EntityOpts : exportGraphJson(l, c, e)
  \/ QueryReturn

FactSearchNext ==
  \/ \E sub \in Entities, o \in Entities, c \in QueryConfidences : fact_add(sub, "p", o, Some(c))
  \/ \E q \in SearchQueries, l \in LimitOpts : searchFacts(q, l)
  \/ QueryReturn

StmNext ==
  \/ \E id \in StmIds, c \in {0, 1}, e \in {Null, Some(1)}, t \in {Null, Some(0), Some(1)},
        imp \in {Null, Some(3)}, r \in {0, 1} :
       stm_insert(id, c, e, t, imp, r)
  \/ StmInsertItem(1, 1, 2)
  \/ \E now \in Times, m \in {Null, Some(0), Some(1), Some(2)} : stm_maintain(now, m)
  \/ \E l \in {Null, Some(1)}, now \in Times : stmLexicalSearch(l, now)
  \/ \E l \in {Null, Some(1)}, inc \in {Null, Some(FALSE)}, now \in Times :
       stm_recall(l, inc, Null, Null, now)
  \/ StmReturn

CodecNext ==
  \/ DequantizeCall
  \/ QuantizeCall
  \/ CosineSimilarityCall
  \/ CodecReturn

EscapeNext ==
  \/ EscapeCall
  \/ EscapeReturn

\* The hybrid retriever and its embedding cache.
Spec == Init /\ [][SearchNext]_vars

\* The fact store and findPaths.
GraphSpec == Init /\ [][GraphNext]_vars

\* findPaths over a populated store of four entities.
WideGraphSpec == WideGraphInit /\ [][WideGraphNext]_vars

\* findPaths runs synchronously: once called, its loop and its return proceed.
GraphLiveSpec ==
  Init /\ [][GraphLiveNext]_vars /\ WF_vars(BfsStep) /\ WF_vars(BfsReturn)

\* searchFacts over the fact store.
FactSearchSpec == Init /\ [][FactSearchNext]_vars

\* Two interleaved hybridSearch calls.
RaceSpec == Init /\ [][RaceNext]_vars

\* Short-term memory.
StmSpec == Init /\ [][StmNext]_vars

\* The write paths of the fact store.
FactSpec == Init /\ [][FactNext]_vars

\* hybridSearchFiltered over attributed items.
FilterSpec == Init /\ [][FilterNext]_vars

\* The graph queries over a changing fact store.
QuerySpec == Init /\ [][QueryNext]_vars

\* The vector codec and cosineSimilarity on bounded inputs.
CodecSpec == Init /\ [][CodecNext]_vars

\* escapeFts5Query on bounded queries.
EscapeSpec == Init /\ [][EscapeNext]_vars

(***************************************************************************)
(* Properties of the hybrid retriever (checked under Spec).                *)
(***************************************************************************)
NoDupIds(seq) == Cardinality(IdsOf(seq)) = Len(seq)

\* C1: when the query embedding cannot be fetched (the provider fails on every
\* call), hybridSearch returns without throwing; every result has a null
\* semanticScore and score = lexicalScore; the results are the candidates in
\* non-increasing lexicalScore order, cut to topK.
C1_LexicalOnlyFallback ==
  \A p \in Procs :
    (pc[p] = "done" /\ IsNull(queryEmb[p])) =>
      /\ outcome[p] = "returned"
      /\ Len(result[p]) = Min(topKOf[p], Len(lex[p]))
      /\ IdsOf(result[p]) \subseteq IdsOf(lex[p])
      /\ \A k \in DOMAIN result[p] :
           /\ result[p][k].semanticScore = Null
           /\ result[p][k].score = RInt(result[p][k].lexicalScore)
      /\ \A k \in 1..(Len(result[p]) - 1) :
           result[p][k].lexicalScore >= result[p][k + 1].lexicalScore
      /\ \A c \in DOMAIN lex[p] :
           lex[p][c].id \notin IdsOf(result[p]) =>
             \A k \in DOMAIN result[p] : result[p][k].lexicalScore >= lex[p][c].lexicalScore

\* C1 witness: the provider failed on the query, and two results of different
\* lexical score came back.
C1_Witness ==
  \E p \in Procs :
    /\ pc[p] = "done"
    /\ IsNull(queryEmb[p])
    /\ ~ConfigError(cfgOf[p])
    /\ Len(result[p]) = 2
    /\ result[p][1].lexicalScore > result[p][2].lexicalScore
    /\ result[p][2].lexicalScore > 0

\* C2: a stored vector of the item under the model name this configuration
\* fetches is reused: no call waits on the provider for a candidate whose vector
\* was persisted under the call's configuration.
C2_PersistedVectorReused ==
  \A p \in Procs :
    (pc[p] = "awaitItem" /\ pending[p] = "net") =>
      LET row == embeddings[lex[p][idx[p]].id]
      IN  ~(~IsNull(row) /\ Val(row).model = FetchModel(cfgOf[p]))

C4_ConfigErrorSurfaced ==
  \A p \in Procs :
    (pc[p] # "idle" /\ ConfigError(cfgOf[p])) =>
      /\ pending[p] # "net"
      /\ (pc[p] = "done" /\ lex[p] # <<>>) => outcome[p] = "threw"

\* C9: a candidate whose vector could not be obtained is pushed all the same, in
\* its place, with a null semanticScore and score = (1 - w) * lexNorm; when the
\* call returns without truncation it is among the results.
C9_UnobtainedCandidateScored ==
  \A p \in Procs :
    \A k \in unobtained[p] :
      /\ k \in DOMAIN out[p]
      /\ out[p][k].id = lex[p][k].id
      /\ out[p][k].lexicalScore = lex[p][k].lexicalScore
      /\ out[p][k].semanticScore = Null
      /\ out[p][k].score = RMul(RSub(RInt(1), wOf[p]), LexNorm(lex[p], lex[p][k]))
      /\ (pc[p] = "done" /\ Len(lex[p]) <= topKOf[p]) =>
           (outcome[p] = "returned" => lex[p][k].id \in IdsOf(result[p]))

\* C9 witness: a returned search in which one candidate's fetch failed, with a
\* nonzero lexical part, and another candidate was scored semantically.
C9_Witness ==
  \E p \in Procs :
    /\ pc[p] = "done"
    /\ outcome[p] = "returned"
    /\ Len(result[p]) = 2
    /\ \E k \in unobtained[p] : out[p][k].score # RInt(0)
    /\ \E k \in DOMAIN result[p] : ~IsNull(result[p][k].semanticScore)

\* The lexical pass holds the `n` best-ranked matching rows of the items table.
TopLexical(h, n) ==
  LET matching == {i \in Stored : Row(i).rank > 0} IN
  /\ IdsOf(h) \subseteq matching
  /\ NoDupIds(h)
  /\ Len(h) = Min(n, Cardinality(matching))
  /\ \A k \in DOMAIN h : h[k].lexicalScore = Row(h[k].id).rank
  /\ \A i \in matching \ IdsOf(h) : \A k \in DOMAIN h : Row(i).rank <= h[k].lexicalScore

\* The recency pass holds the `n` most recently created rows of the items table.
MostRecent(r, n) ==
  /\ IdsOf(r) \subseteq Stored
  /\ NoDupIds(r)
  /\ Len(r) = Min(n, Cardinality(Stored))
  /\ \A i \in Stored \ IdsOf(r) :
       \A k \in DOMAIN r : Row(i).created_at <= Row(r[k].id).created_at

CandidatesAreUnion(p) ==
  /\ TopLexical(lexHits[p], candOf[p])
  /\ MostRecent(recent[p], candOf[p])
  /\ IdsOf(lex[p]) = IdsOf(lexHits[p]) \cup IdsOf(recent[p])
  /\ NoDupIds(lex[p])
  /\ \A k \in DOMAIN lex[p] :
       IF lex[p][k].id \in IdsOf(lexHits[p])
       THEN \E j \in DOMAIN lexHits[p] : lexHits[p][j] = lex[p][k]
       ELSE lex[p][k].lexicalScore = 0

\* C10: at the start of a call the candidates are the union of the top
\* candidatePoolSize lexical hits and the candidatePoolSize most recent items,
\* without a repeated id; an item of both passes keeps its lexical-pass score,
\* an item of the recency pass alone has lexicalScore 0; and no id occurs twice
\* among the scored entries or in the result.
C10_CandidatesDeduplicatedUnion ==
  [][\A p \in Procs :
       /\ (pc[p] = "idle" /\ pc'[p] # "idle") => CandidatesAreUnion(p)'
       /\ NoDupIds(out[p])'
       /\ NoDupIds(result[p])']_vars

\* C10 witness: a returned call whose candidates hold an item of both passes and
\* an item of the recency pass alone.
C10_Witness ==
  \E p \in Procs :
    /\ pc[p] = "done"
    /\ Len(result[p]) = 2
    /\ \E a \in IdsOf(lexHits[p]) \cap IdsOf(recent[p]) :
         \E k \in DOMAIN lex[p] : lex[p][k].id = a /\ lex[p][k].lexicalScore > 0
    /\ IdsOf(recent[p]) \ IdsOf(lexHits[p]) # {}

(***************************************************************************)
(* Properties of the fact store (FactSpec) and of findPaths (GraphSpec).   *)
(***************************************************************************)
\* C5: every stored fact has a confidence within [0, 1] (0..10 tenths), whatever
\* write path stored it.
C5_ConfidenceClamped ==
  \A k \in DOMAIN facts : 0 <= facts[k].confidence /\ facts[k].confidence <= 10

\* C6: findPaths(A, A, maxDepth, maxPaths) returns an empty list.
C6_NoSelfPath ==
  (gpc = "done" /\ fromEntity = toEntity) => gResult = <<>>

\* Some stored fact has a and b as its two ends, in either direction.
DirectlyConnected(a, b) ==
  \E k \in DOMAIN facts :
    \/ facts[k].subject = a /\ facts[k].object = b
    \/ facts[k].subject = b /\ facts[k].object = a

\* C7: every returned path has between 1 and maxDepth hops (as many as it has
\* steps), and with maxDepth = 1 a path is returned only if a fact directly
\* connects from and to.
C7_PathLengthWithinDepth ==
  gpc = "done" =>
    /\ \A k \in DOMAIN gResult :
         /\ gResult[k].length = Len(gResult[k].path) - 1
         /\ 1 <= gResult[k].length
         /\ gResult[k].length <= maxDepth
    /\ (maxDepth = 1 /\ gResult # <<>>) => DirectlyConnected(fromEntity, toEntity)

\* C7 witness: a returned path of exactly maxDepth = 2 hops between two entities
\* that no fact connects directly.
C7_Witness ==
  /\ gpc = "done"
  /\ maxDepth = 2
  /\ fromEntity # toEntity
  /\ ~DirectlyConnected(fromEntity, toEntity)
  /\ \E k \in DOMAIN gResult : gResult[k].length = 2

\* C8: findPaths returns at most maxPaths paths, in non-decreasing length order.
C8_AtMostMaxPathsShortestFirst ==
  gpc = "done" =>
    /\ Len(gResult) <= maxPaths
    /\ \A k \in 1..(Len(gResult) - 1) : gResult[k].length <= gResult[k + 1].length

\* C8 witness: the search stopped at maxPaths = 2 paths of different lengths with
\* entries still queued.
C8_Witness ==
  /\ gpc = "done"
  /\ maxPaths = 2
  /\ Len(gResult) = 2
  /\ gResult[1].length < gResult[2].length
  /\ queue # <<>>

(***************************************************************************)
(* Properties of hybridSearchFiltered (checked under FilterSpec).          *)
(***************************************************************************)
FilterFieldNames == {"entity_id", "process_id", "session_id"}

\* The item equals every supplied field of the filter exactly.
SatisfiesFilter(id, filterArg) ==
  IsNull(filterArg) \/
    \A n \in FilterFieldNames :
      IsNull(Val(filterArg)[n]) \/ attribution[id][n] = Val(Val(filterArg)[n])

\* sub is the sub-sequence of seq at exactly the positions in keep, in order.
IsSubSequenceAt(sub, seq, keep) ==
  /\ Len(sub) = Cardinality(keep)
  /\ \E g \in [1..Len(sub) -> keep] :
       /\ \A a, b \in 1..Len(sub) : a < b => g[a] < g[b]
       /\ \A a \in 1..Len(sub) : sub[a] = seq[g[a]]

\* C11: hybridSearchFiltered returns exactly the entries of hybridSearch's fused,
\* topK-truncated result whose items equal every supplied filter field, in the
\* same order (all of them when no filter or no field is supplied); it returns
\* normally, possibly with an empty list, whenever hybridSearch does.
C11_FilteredIsSubSequence ==
  \A p \in Procs :
    (pc[p] = "done" /\ ~IsNull(fResult[p]) /\ outcome[p] = "returned") =>
      /\ Val(fResult[p]).outcome = "returned"
      /\ IsSubSequenceAt(Val(fResult[p]).value, result[p],
                         {k \in DOMAIN result[p] : SatisfiesFilter(result[p][k].id, Val(filterOf[p]))})
      /\ Len(Val(fResult[p]).value) <= topKOf[p]

\* C11 witness: topK = 1 and the filtered result is empty although a stored item
\* that matches the query satisfies the filter: it was cut before filtering.
C11_Witness ==
  \E p \in Procs :
    /\ pc[p] = "done"
    /\ ~IsNull(fResult[p])
    /\ outcome[p] = "returned"
    /\ ~IsNull(queryEmb[p])
    /\ topKOf[p] = 1
    /\ Len(result[p]) = 1
    /\ Val(fResult[p]).value = <<>>
    /\ ~IsNull(Val(filterOf[p]))
    /\ \E i \in Stored :
         /\ Row(i).rank > 0
         /\ SatisfiesFilter(i, Val(filterOf[p]))

(***************************************************************************)
(* Ranking properties of hybridSearch (checked under Spec).                *)
(***************************************************************************)
\* The position of the entry of item id in a result list (0 when absent).
PositionOf(seq, id) ==
  IF id \in IdsOf(seq) THEN CHOOSE k \in DOMAIN seq : seq[k].id = id ELSE 0

\* Two scored candidates of equal lexical score at cosine 1 and cosine -1.
OppositePair(p, a, b) ==
  /\ a \in DOMAIN out[p]
  /\ b \in DOMAIN out[p]
  /\ out[p][a].lexicalScore = out[p][b].lexicalScore
  /\ out[p][a].semanticScore = Some(RInt(1))
  /\ out[p][b].semanticScore = Some(RInt(-1))

\* C12: with semanticWeight 1, of two candidates of identical lexical score at
\* cosine 1 and cosine -1 to the query vector, the cosine-1 candidate has the
\* strictly greater fused score, and the returned list never holds the
\* cosine -1 candidate without the cosine-1 candidate before it.
C12_SimilarRanksAboveOpposite ==
  \A p \in Procs :
    (pc[p] = "done" /\ outcome[p] = "returned" /\ ~IsNull(queryEmb[p]) /\ wOf[p] = RInt(1)) =>
      \A a, b \in DOMAIN out[p] :
        OppositePair(p, a, b) =>
          /\ RLess(out[p][b].score, out[p][a].score)
          /\ out[p][b].id \in IdsOf(result[p]) =>
               /\ out[p][a].id \in IdsOf(result[p])
               /\ PositionOf(result[p], out[p][a].id) < PositionOf(result[p], out[p][b].id)

\* C12 witness: such a pair was returned, the cosine -1 candidate having come
\* first in candidate order.
C12_Witness ==
  \E p \in Procs :
    /\ pc[p] = "done"
    /\ outcome[p] = "returned"
    /\ wOf[p] = RInt(1)
    /\ \E a, b \in DOMAIN out[p] :
         /\ OppositePair(p, a, b)
         /\ b < a
         /\ out[p][b].id \in IdsOf(result[p])
         /\ result[p][1].id = out[p][a].id

\* C13: every record of the embeddings table has dims equal to the number of
\* components of its stored vector (4 bytes each).
C13_DimsMatchVector ==
  \A i \in ItemIds :
    ~IsNull(embeddings[i]) =>
      /\ Val(embeddings[i]).dims = Len(blobToVector(Val(embeddings[i]).vector))
      /\ Val(embeddings[i]).dims * 4 = Len(Val(embeddings[i]).vector)

\* C13 witness: the store holds, under one model name, a record of dims 2 and a
\* record of dims 1 (the provider changed dimension), and the second item is
\* being fetched again under that model name.
C13_Witness ==
  \E p \in Procs, i, j \in ItemIds :
    /\ pc[p] = "awaitItem"
    /\ pending[p] = "net"
    /\ lex[p][idx[p]].id = j
    /\ ~IsNull(embeddings[i])
    /\ ~IsNull(embeddings[j])
    /\ Val(embeddings[i]).model = FetchModel(cfgOf[p])
    /\ Val(embeddings[j]).model = FetchModel(cfgOf[p])
    /\ Val(embeddings[i]).dims = 2
    /\ Val(embeddings[j]).dims = 1

(***************************************************************************)
(* Properties of the graph queries (checked under QuerySpec).  A property  *)
(* of a return value is stated for the step that makes the call, where the *)
(* facts table is the one the call read.                                   *)
(***************************************************************************)
\* The entities at the other end of a fact that has e at one end.
OtherEnds(e) ==
  {x \in Entities \ {e} :
     \E k \in DOMAIN facts :
       \/ facts[k].subject = e /\ facts[k].object = x
       \/ facts[k].object = e /\ facts[k].subject = x}

NoRepeats(seq) == \A a, b \in DOMAIN seq : a # b => seq[a] # seq[b]

\* C14: getRelatedEntities(entity) returns, without duplicates, exactly the
\* entities other than the entity that are the other end of a fact having the
\* entity as subject or object.
C14_RelatedAreOtherEnds ==
  [][(qCall.op = "none" /\ qCall'.op = "getRelatedEntities") =>
       /\ NoRepeats(qCall'.value)
       /\ {qCall'.value[k] : k \in DOMAIN qCall'.value} = OtherEnds(qCall'.args[1])]_vars

\* C14 witness: a call for an entity that has a self-loop fact and two facts to
\* the same neighbour, one in each direction, returned that neighbour once.
C14_Witness ==
  /\ qCall.op = "getRelatedEntities"
  /\ LET e == qCall.args[1] IN
     /\ \E k \in DOMAIN facts : facts[k].subject = e /\ facts[k].object = e
     /\ \E x \in Entities \ {e} :
          /\ \E k \in DOMAIN facts : facts[k].subject = e /\ facts[k].object = x
          /\ \E k \in DOMAIN facts : facts[k].subject = x /\ facts[k].object = e
          /\ qCall.value = <<x>>

\* The entities that are the subject or the object of a stored fact.
EntitiesInFacts ==
  {e \in Entities : \E k \in DOMAIN facts : facts[k].subject = e \/ facts[k].object = e}

\* t tenths is n / d rounded to one decimal (a half rounds upwards).
IsRoundedToTenths(t, n, d) ==
  /\ 20 * n - d < 2 * d * t
  /\ 2 * d * t <= 20 * n + d

\* C15: getGraphStats reports totalEntities as the number of distinct subjects
\* and objects of the stored facts, and avgConnectionsPerEntity as
\* 2 * totalFacts / totalEntities rounded to one decimal, 0 when there is no fact.
C15_StatsCountDistinctEntities ==
  [][(qCall.op = "none" /\ qCall'.op = "getGraphStats") =>
       /\ qCall'.value.totalFacts = Len(facts)
       /\ qCall'.value.totalEntities = Cardinality(EntitiesInFacts)
       /\ IF facts = <<>>
          THEN qCall'.value.avgConnectionsPerEntity = 0
          ELSE IsRoundedToTenths(qCall'.value.avgConnectionsPerEntity,
                                 2 * Len(facts), Cardinality(EntitiesInFacts))]_vars

\* C15 witness: two facts over three entities, one of them the object of one
\* fact and the subject of the other: 3 entities, 4/3 reported as 1.3.
C15_Witness ==
  /\ qCall.op = "getGraphStats"
  /\ Len(facts) = 2
  /\ facts[1].object = facts[2].subject
  /\ qCall.value.totalEntities = 3
  /\ qCall.value.avgConnectionsPerEntity = 13

\* edges are the `limit` highest-confidence facts among the positions in sel, in
\* non-increasing confidence order.
IsTopByConfidence(edges, sel, limit) ==
  /\ Len(edges) = Min(limit, Cardinality(sel))
  /\ \A a, b \in DOMAIN edges : a < b => edges[a].confidence >= edges[b].confidence
  /\ \E g \in [DOMAIN edges -> sel] :
       /\ \A a, b \in DOMAIN edges : a # b => g[a] # g[b]
       /\ \A a \in DOMAIN edges :
            /\ edges[a].from = facts[g[a]].subject
            /\ edges[a].to = facts[g[a]].object
            /\ edges[a].label = facts[g[a]].predicate
            /\ edges[a].confidence = facts[g[a]].confidence
       /\ \A k \in sel \ {g[a] : a \in DOMAIN edges} :
            \A a \in DOMAIN edges : facts[k].confidence <= edges[a].confidence

\* C16: when exportGraphJson is given both an entity and a minConfidence, the
\* exported edges are the facts having the entity as subject or object (the
\* `limit` highest in confidence), whatever their confidence is relative to
\* minConfidence.
C16_EntityTakesPrecedence ==
  [][(/\ qCall.op = "none"
      /\ qCall'.op = "exportGraphJson"
      /\ ~IsNull(qCall'.args[2])
      /\ ~IsNull(qCall'.args[3])) =>
       IsTopByConfidence(qCall'.value.edges,
                         {k \in DOMAIN facts :
                            facts[k].subject = Val(qCall'.args[3]) \/ facts[k].object = Val(qCall'.args[3])},
                         IF IsNull(qCall'.args[1]) THEN DefaultExportLimit ELSE Val(qCall'.args[1]))]_vars

\* C16 witness: an export with an entity and minConfidence 0.5 that holds an edge
\* of confidence 0.3 and leaves out a fact of confidence 0.7 elsewhere in the graph.
C16_Witness ==
  /\ qCall.op = "exportGraphJson"
  /\ qCall.args[2] = Some(5)
  /\ ~IsNull(qCall.args[3])
  /\ \E a \in DOMAIN qCall.value.edges : qCall.value.edges[a].confidence = 3
  /\ \E k \in DOMAIN facts :
       /\ facts[k].confidence = 7
       /\ facts[k].subject # Val(qCall.args[3])
       /\ facts[k].object # Val(qCall.args[3])
       /\ \A a \in DOMAIN qCall.value.edges :
            qCall.value.edges[a].from # facts[k].subject \/ qCall.value.edges[a].to # facts[k].object

(***************************************************************************)
(* Properties of the vector codec (checked under CodecSpec).               *)
(***************************************************************************)
\* A half-precision pattern with an all-ones exponent and a nonzero mantissa.
IsNaN16(h) == (h \div 1024) % 32 = 31 /\ h % 1024 # 0

\* C17: quantizing the dequantized value of a 16-bit pattern gives the pattern
\* back (normals, subnormals, both zeros, both infinities), and a NaN pattern
\* gives a NaN pattern.
C17_QuantizeInvertsDequantize ==
  requantized # Null =>
    LET h == Val(half)[1]
        back == Val(requantized)[1]
    IN  IF IsNaN16(h) THEN IsNaN16(back) ELSE back = h

\* A vector whose every component is zero.
HasZeroNorm(v) == \A i \in DOMAIN v : ElementValue(v[i]) = XNum(0)

\* C18: cosineSimilarity throws when the lengths differ and otherwise returns 0
\* when either vector has zero norm.
C18_ThrowsOnMismatchZeroOnZeroNorm ==
  cosCall # Null =>
    LET c == Val(cosCall) IN
    /\ Len(c.a) # Len(c.b) => c.result.outcome = "threw"
    /\ (Len(c.a) = Len(c.b) /\ (HasZeroNorm(c.a) \/ HasZeroNorm(c.b))) =>
         (c.result.outcome = "returned" /\ c.result.value = CosZero)

(***************************************************************************)
(* Properties of escapeFts5Query (checked under EscapeSpec).               *)
(***************************************************************************)
\* The query without its leading and trailing white space.
Trimmed(query) ==
  LET inner == {i \in DOMAIN query : ~IsSpace(query[i])} IN
  IF inner = {} THEN <<>>
  ELSE SubSeq(query,
              CHOOSE i \in inner : \A j \in inner : i <= j,
              CHOOSE i \in inner : \A j \in inner : j <= i)

\* Word tokens separated by white space, and nothing else.
OnlyWordTokens(t) ==
  /\ t # <<>>
  /\ \A i \in DOMAIN t : IsWord(t[i]) \/ IsSpace(t[i])
  /\ IsWord(t[1])
  /\ IsWord(t[Len(t)])

\* s read with every pair of adjacent quotes taken as one quote; <<"unpaired">>
\* when a quote stands alone.
RECURSIVE Undoubled(_)
Undoubled(s) ==
  IF s = <<>> THEN <<>>
  ELSE IF Head(s) # Quote
       THEN (LET rest == Undoubled(Tail(s))
             IN  IF rest = <<"unpaired">> THEN rest ELSE <<Head(s)>> \o rest)
  ELSE IF Len(s) >= 2 /\ s[2] = Quote
       THEN (LET rest == Undoubled(Tail(Tail(s)))
             IN  IF rest = <<"unpaired">> THEN rest ELSE <<Quote>> \o rest)
  ELSE <<"unpaired">>

\* C19: escapeFts5Query returns "" (two quotes) for a blank query, the trimmed
\* query unchanged when it is word tokens separated by white space, and
\* otherwise the trimmed query between one pair of double quotes with every
\* quote inside doubled.
C19_EscapeFts5Query ==
  escCall # Null =>
    LET t == Trimmed(Val(escCall).query)
        phrase == Val(escCall).escaped
    IN  IF t = <<>> THEN phrase = <<Quote, Quote>>
        ELSE IF OnlyWordTokens(t) THEN phrase = t
        ELSE /\ Len(phrase) >= 2
             /\ phrase[1] = Quote
             /\ phrase[Len(phrase)] = Quote
             /\ Len(phrase) = 2 + Len(t) + Cardinality({i \in DOMAIN t : t[i] = Quote})
             /\ Undoubled(SubSeq(phrase, 2, Len(phrase) - 1)) = t

\* A padded query holding two quotes has been wrapped as a phrase.
C19_Witness ==
  /\ escCall # Null
  /\ Val(escCall).query = <<" ", Quote, "a", Quote>>
  /\ Val(escCall).escaped = <<Quote, Quote, Quote, "a", Quote, Quote, Quote>>

(***************************************************************************)
(* Order of the hybrid results (checked under Spec).                       *)
(***************************************************************************)
\* C20: when the query vector was available, hybridSearch returns at most topK
\* results, in non-increasing fused score order, and results of equal fused
\* score stand in their candidate order.
C20_SortedStableTopK ==
  \A p \in Procs :
    (pc[p] = "done" /\ outcome[p] = "returned" /\ ~IsNull(queryEmb[p])) =>
      /\ Len(result[p]) <= topKOf[p]
      /\ IdsOf(result[p]) \subseteq IdsOf(lex[p])
      /\ \A i, j \in DOMAIN result[p] :
           i < j =>
             /\ ~RLess(result[p][i].score, result[p][j].score)
             /\ ~RLess(result[p][j].score, result[p][i].score) =>
                  PositionOf(lex[p], result[p][i].id) < PositionOf(lex[p], result[p][j].id)

\* C20 witness: a hybrid search returned two semantically scored results of
\* equal fused score.
C20_Witness ==
  \E p \in Procs :
    /\ pc[p] = "done"
    /\ outcome[p] = "returned"
    /\ ~IsNull(queryEmb[p])
    /\ Len(result[p]) = 2
    /\ ~IsNull(result[p][1].semanticScore)
    /\ ~RLess(result[p][2].score, result[p][1].score)

(***************************************************************************)
(* The traversal of findPaths (GraphSpec and WideGraphSpec).               *)
(***************************************************************************)
\* The ordered pairs of consecutive entities of a returned path.
StepsOf(found) ==
  {<<found.path[k].entity, found.path[k + 1].entity>> : k \in 1..(Len(found.path) - 1)}

\* C21: no ordered adjacent pair is a step of two distinct paths returned by the
\* same findPaths call.
C21_NoStepInTwoPaths ==
  gpc = "done" =>
    \A i, j \in DOMAIN gResult :
      gResult[i] # gResult[j] => StepsOf(gResult[i]) \cap StepsOf(gResult[j]) = {}

\* The ordered pair taken by the step that reaches position k of a path.
StepAt(found, k) == <<found.path[k - 1].entity, found.path[k].entity>>

\* C21 (amended): an ordered adjacent pair is taken as a new step once only: two
\* returned paths hold the same ordered pair as a step only at the same
\* position and after the same steps, the pair's own step (and its edge) included.
C21_SharedStepSharesPrefix ==
  gpc = "done" =>
    \A i, j \in DOMAIN gResult :
      \A a \in 2..Len(gResult[i].path), b \in 2..Len(gResult[j].path) :
        StepAt(gResult[i], a) = StepAt(gResult[j], b) =>
          /\ a = b
          /\ SubSeq(gResult[i].path, 1, a) = SubSeq(gResult[j].path, 1, b)

\* C21 witness: two distinct returned paths begin with the same step.
C21_Witness ==
  /\ gpc = "done"
  /\ Len(gResult) = 2
  /\ gResult[1] # gResult[2]
  /\ StepAt(gResult[1], 2) = StepAt(gResult[2], 2)

\* The keys of the ordered adjacent pairs of the fact set.
AdjacentKeys ==
  {PathKey(facts[k].subject, facts[k].object) : k \in DOMAIN facts} \cup
  {PathKey(facts[k].object, facts[k].subject) : k \in DOMAIN facts}

\* C22: during one findPaths search an iteration creates one queue entry for
\* each ordered adjacent pair it adds to the visited set and no other, the
\* visited pairs are ordered adjacent pairs of the fact set, and the entries
\* waiting in the queue end with distinct pairs: the entries ever created
\* number at most 1 plus the ordered adjacent pairs.
C22_EnqueuedOncePerTraversal ==
  [][(gpc = "bfs" /\ gpc' = "bfs") =>
       /\ visited \subseteq visited'
       /\ Len(queue') - (Len(queue) - 1) = Cardinality(visited' \ visited)
       /\ visited' \subseteq AdjacentKeys
       /\ Len(queue') <= 1 + Cardinality(visited')
       /\ \A a, b \in DOMAIN queue' :
            (a # b /\ Len(queue'[a].path) > 1 /\ Len(queue'[b].path) > 1) =>
              StepAt(queue'[a], Len(queue'[a].path)) # StepAt(queue'[b], Len(queue'[b].path))]_vars

\* C22 witness: a search has run until every ordered adjacent pair of a fact set
\* with a cycle was visited, entries still waiting.
C22_Witness ==
  /\ gpc = "bfs"
  /\ visited = AdjacentKeys
  /\ Cardinality(visited) = 6
  /\ queue # <<>>

\* C25: a findPaths call in progress returns, whatever the fact set (cycles,
\* self-loop facts, several facts between the same two entities), maxDepth
\* and maxPaths.
C25_FindPathsTerminates == (gpc = "bfs") ~> (gpc = "done")

\* C25 witness: a call without an effective depth limit has returned with an
\* empty queue over a store holding a self-loop fact and two facts between the
\* same two entities.
C25_Witness ==
  /\ gpc = "done"
  /\ maxDepth = NoDepthLimit
  /\ queue = <<>>
  /\ visited = AdjacentKeys
  /\ \E k \in DOMAIN facts : facts[k].subject = facts[k].object
  /\ \E i, j \in DOMAIN facts :
       /\ i # j
       /\ facts[i].subject # facts[i].object
       /\ {facts[i].subject, facts[i].object} = {facts[j].subject, facts[j].object}

\* The entities within n hops of e over the undirected view of the facts.
RECURSIVE WithinHops(_, _)
WithinHops(e, n) ==
  IF n = 0 THEN {e}
  ELSE LET near == WithinHops(e, n - 1)
       IN  near \cup {x \in Entities : \E y \in near : DirectlyConnected(x, y)}

C27_PathsAreWalks ==
  gpc = "done" =>
    \A i \in DOMAIN gResult :
      LET found == gResult[i] IN
      /\ found.from = fromEntity
      /\ found.to = toEntity
      /\ Len(found.path) >= 2
      /\ found.path[1] = [entity |-> fromEntity, edge |-> Null]
      /\ found.path[Len(found.path)].entity = toEntity
      /\ found.length = Len(found.path) - 1
      /\ \A k \in 2..Len(found.path) :
           /\ ~IsNull(found.path[k].edge)
           /\ \E n \in DOMAIN facts : GraphEdge(facts[n]) = Val(found.path[k].edge)
           /\ LET edge == Val(found.path[k].edge) IN
              \/ /\ edge.subject = found.path[k - 1].entity
                 /\ edge.object = found.path[k].entity
              \/ /\ edge.object = found.path[k - 1].entity
                 /\ edge.subject = found.path[k].entity

\* C27 witness: a returned path of two hops follows its first fact from object
\* to subject and its second from subject to object.
C27_Witness ==
  /\ gpc = "done"
  /\ \E i \in DOMAIN gResult :
       LET found == gResult[i] IN
       /\ found.length = 2
       /\ Val(found.path[2].edge).object = fromEntity
       /\ Val(found.path[2].edge).subject # fromEntity
       /\ Val(found.path[3].edge).object = toEntity
       /\ Val(found.path[3].edge).subject # toEntity

(***************************************************************************)
(* searchFacts (checked under FactSearchSpec).                             *)
(***************************************************************************)
\* query occurs in text as a run of consecutive characters, up to case.
OccursIn(query, text) ==
  \E k \in 0..(Len(text) - Len(query)) :
    \A n \in DOMAIN query : FoldCase(text[k + n]) = FoldCase(query[n])

\* C24: searchFacts(query) returns only facts whose subject, predicate or object
\* holds the query text as a substring (no character of the query read as a
\* wildcard), in descending confidence order, at most limit of them.
C24_SubstringMatchOnly ==
  qCall.op = "searchFacts" =>
    LET query == qCall.args[1]
        limit == qCall.args[2]
        rows == qCall.value
    IN  /\ Len(rows) <= limit
        /\ \A k \in 1..(Len(rows) - 1) : rows[k].confidence >= rows[k + 1].confidence
        /\ \A k \in DOMAIN rows :
             \/ OccursIn(query, rows[k].subject)
             \/ OccursIn(query, PredicateText(rows[k].predicate))
             \/ OccursIn(query, rows[k].object)

(***************************************************************************)
(* The order of the embedding requests of one hybridSearch call (Spec).    *)
(***************************************************************************)
\* The first n candidates of the call have been resolved and pushed, in order.
ResolvedUpTo(p, n) ==
  /\ Len(out[p]) = n
  /\ \A k \in 1..n : out[p][k].id = lex[p][k].id

\* C23: a hybridSearch call has an embedding request outstanding only while it
\* awaits it (the query's, or the current candidate's), and the request for
\* candidate i is outstanding only once candidates 1..i-1 have been resolved
\* and pushed: the candidates are taken one at a time in candidate order.
C23_OneRequestAtATime ==
  \A p \in Procs :
    /\ pending[p] # "none" => pc[p] \in {"awaitQuery", "awaitItem"}
    /\ pc[p] = "awaitQuery" => (out[p] = <<>> /\ idx[p] = 0)
    /\ pc[p] \in {"loop", "awaitItem"} =>
         /\ idx[p] \in DOMAIN lex[p]
         /\ ResolvedUpTo(p, idx[p] - 1)
    /\ pc[p] = "loop" => pending[p] = "none"

\* C23 witness: the request for the second candidate is outstanding, the first
\* candidate having been fetched and persisted.
C23_Witness ==
  \E p \in Procs :
    /\ pc[p] = "awaitItem"
    /\ pending[p] = "net"
    /\ idx[p] = 2
    /\ ~IsNull(out[p][1].semanticScore)
    /\ ~IsNull(embeddings[lex[p][1].id])

(***************************************************************************)
(* Two interleaved hybridSearch calls (checked under RaceSpec).            *)
(***************************************************************************)
\* The embeddings record that persisting the provider response v leaves.
RecordOf(v) ==
  [model |-> FetchModel(CfgOllama), dims |-> Len(v), vector |-> vectorToBlob(v)]

\* The call p has scored item i with a semantic score.
ScoredSemantically(p, i) ==
  \E k \in DOMAIN out[p] : out[p][k].id = i /\ ~IsNull(out[p][k].semanticScore)

\* C28: with two hybridSearch calls interleaved on one store, every embeddings
\* record is the whole of one provider response (one record per item, dims and
\* vector together), a call fails only when cosine meets vectors of different
\* lengths, and once both calls have returned an item both have scored, the
\* item has its record.
C28_RacingMissesLeaveOneWholeRecord ==
  /\ \A i \in ItemIds :
       ~IsNull(embeddings[i]) => \E v \in RaceVecs : Val(embeddings[i]) = RecordOf(v)
  /\ \A p \in Procs :
       outcome[p] = "threw" =>
         /\ ~IsNull(queryEmb[p])
         /\ \E v \in RaceVecs : CosineThrows(Val(queryEmb[p]).vector, v)
  /\ (\A p \in Procs : pc[p] = "done" /\ outcome[p] = "returned") =>
       \A i \in ItemIds :
         (\A p \in Procs : ScoredSemantically(p, i)) => ~IsNull(embeddings[i])

\* C28 witness: both calls have returned having scored the same item against
\* query vectors of different lengths, so each missed the cache and used its
\* own response, and the second persist found the first one's record.
C28_Witness ==
  /\ \A p \in Procs : pc[p] = "done" /\ outcome[p] = "returned"
  /\ \E i \in ItemIds : \A p \in Procs : ScoredSemantically(p, i)
  /\ Val(queryEmb[1]).dims # Val(queryEmb[2]).dims

(***************************************************************************)
(* C29.  After stm_maintain(now, maxItems) returns, no short-term item     *)
(* with a non-null expires_at <= now remains; the rows that remain are     *)
(* rows that were stored, unchanged; when maxItems > 0 the number of       *)
(* remaining items is at most maxItems, no more than the overflow was      *)
(* removed, and every unexpired row removed is no later in ascending       *)
(* (importance, created_at) order than every row kept; without a positive  *)
(* maxItems exactly the expired rows are removed; the returned total is    *)
(* the number of remaining items.                                          *)
(***************************************************************************)
PastExpiry(row, now) == ~IsNull(row.expires_at) /\ Val(row.expires_at) <= now

ImportanceOrder(r, k) ==
  \/ r.importance < k.importance
  \/ r.importance = k.importance /\ r.created_at <= k.created_at

MaintainedRight(before, after, call) ==
  LET now == call.args[1]
      maxItemsOpt == call.args[2]
      was == {i \in StmIds : ~IsNull(before[i])}
      kept == {i \in StmIds : ~IsNull(after[i])}
      unexpired == {i \in was : ~PastExpiry(Val(before[i]), now)}
  IN  /\ \A i \in kept : after[i] = before[i]
      /\ \A i \in kept : ~PastExpiry(Val(after[i]), now)
      /\ IF ~IsNull(maxItemsOpt) /\ Val(maxItemsOpt) > 0
           THEN /\ Cardinality(kept) <= Val(maxItemsOpt)
                /\ Cardinality(kept) = Min(Cardinality(unexpired), Val(maxItemsOpt))
                /\ \A r \in unexpired \ kept, k \in kept :
                     ImportanceOrder(Val(before[r]), Val(before[k]))
           ELSE kept = unexpired
      /\ call.value.total = Cardinality(kept)
      /\ call.value.deletedExpired = Cardinality(was \ unexpired)
      /\ call.value.deletedOverflow = Cardinality(unexpired \ kept)

C29_MaintainExpiresAndTrims ==
  [][(stmCall.op = "none" /\ stmCall'.op = "stm_maintain")
       => MaintainedRight(stm, stm', stmCall')]_vars

\* A maintenance that found an expired row and an overflow among the rest,
\* and left one row.
C29_Witness ==
  /\ stmCall.op = "stm_maintain"
  /\ stmCall.value.deletedExpired = 1
  /\ stmCall.value.deletedOverflow = 1
  /\ stmCall.value.total = 1
  /\ Cardinality(StmStored) = 1

(***************************************************************************)
(* C30.  stmLexicalSearch and stm_recall evaluated at time now never       *)
(* return a short-term item whose expires_at is non-null and <= now,       *)
(* whether or not stm_maintain has removed the item: every short-term      *)
(* entry returned is a stored row with the row's expires_at, and that is   *)
(* null or later than now.  An item inserted with a ttlMs and no           *)
(* expires_at is stored with expires_at = created_at + ttlMs, so it is     *)
(* not returned at any now from that time on.                              *)
(***************************************************************************)
ShortTermEntries(call) ==
  IF call.op = "stmLexicalSearch" THEN {call.value[k] : k \in DOMAIN call.value}
  ELSE {call.value[k] : k \in {j \in DOMAIN call.value : call.value[j].scope = "stm"}}

InsertedWithTtl(call) ==
  call.op = "stm_insert" /\ IsNull(call.args[3]) /\ ~IsNull(call.args[4]) /\ Val(call.args[4]) > 0

C30_ExpiredNeverReturned ==
  /\ InsertedWithTtl(stmCall) =>
       /\ ~IsNull(stm[stmCall.args[1]])
       /\ Val(stm[stmCall.args[1]]).expires_at = Some(stmCall.args[2] + Val(stmCall.args[4]))
       /\ stmCall.value.expires_at = Some(stmCall.args[2] + Val(stmCall.args[4]))
  /\ stmCall.op \in {"stmLexicalSearch", "stm_recall"} =>
       \A e \in ShortTermEntries(stmCall) :
         /\ ~IsNull(stm[e.id])
         /\ e.expires_at = Val(stm[e.id]).expires_at
         /\ ~PastExpiry(e, stmCall.args[2])

\* A recall at now = 2 while a matching item inserted at 1 with a ttlMs of 1
\* is still stored: it is left out, and another short-term item is returned.
C30_Witness ==
  /\ stmCall.op = "stm_recall"
  /\ stmCall.args[2] = 2
  /\ \E i \in StmIds :
       /\ ~IsNull(stm[i])
       /\ Val(stm[i]).created_at = 1
       /\ Val(stm[i]).expires_at = Some(2)
       /\ Val(stm[i]).rank > 0
       /\ \A e \in ShortTermEntries(stmCall) : e.id # i
  /\ ShortTermEntries(stmCall) # {}

====
